---- MODULE Spec2Model ----
(***************************************************************************)
(* Model of fetchvid's in-memory stores (src/cache_manager.py):            *)
(*   CacheManager    - TTL/LRU cache of video information                  *)
(*   SessionManager  - per-client sessions, daily quota, ad-view bypass    *)
(* and of the request handlers of src/main.py that use them.               *)
(* Time is the wall clock in seconds (time.time() / datetime.now()).  An   *)
(* operation's body runs without suspension once its lock is held; its     *)
(* clock reads are taken at the instant `now`, except the second read of   *)
(* one comparison in should_show_delay, which may fall a tick later.       *)
(***************************************************************************)
EXTENDS Integers, Sequences, FiniteSets, TLC

VARIABLES
    cache,          \* CacheManager.cache: OrderedDict, oldest entry first
    max_size,       \* CacheManager.max_size
    hit_count,      \* CacheManager.hit_count
    miss_count,     \* CacheManager.miss_count
    sessions,       \* SessionManager.sessions: session id -> session dict
    now,            \* the wall clock
    ret,            \* the last completed call: [op, arg, result, removed]; arg is the
                    \* locator or session id of the call, <<>> if it has none
    recency,        \* history: keys of stored entries, least recently touched first
    written,        \* history: per key, the value and ttl of the last set still standing
    lock,           \* the asyncio.Lock of each store: [locked, waiters]
    pc,             \* per request context: where it stands in its cache call
    call,           \* per request context: the call it is making
    local,          \* per request context: the local variables of the call
    expect,         \* history: per request context, the outcome the call would have
                    \* if its whole body ran at the instant it read the store
    reaper,         \* the periodic_cleanup task: [pc, raised, logged]
    app,            \* the application: "serving", or "shutdown" once shutdown_event ran
    handler,        \* per request context: the frame of the handler coroutine that
                    \* makes its calls; stage tells what it awaits
    progress_store  \* main.progress_store: progress id -> list of status reports

\* the call's name and argument come first, so that two states are told apart by
\* them before the results of two different calls are compared
vars == <<ret.op, ret.arg, pc, call, cache, max_size, hit_count, miss_count, sessions, now,
          recency, written, lock, local, expect, reaper, app, handler, progress_store, ret>>

(***************************************************************************)
(* Bounds of the model.                                                    *)
(***************************************************************************)
MaxCap == 3          \* capacities 0..MaxCap are constructed
MaxRequests == 2     \* gets counted between two clears
MaxDownloads == 11   \* downloads counted per session
MaxAdViews == 4      \* ad views counted per session
MaxStatRequests == 3    \* gets counted between two clears when the statistics are read
MaxFetches == 3    \* requests to /fetch counted
MaxHandlerFetches == 1     \* requests to /fetch counted among the requests to the four endpoints
MaxHandlerAdViews == 3     \* ad views counted per session among the requests
MaxLockDownloads == 2   \* downloads counted per session among concurrent contexts
MaxLockAdViews == 2     \* ad views counted per session among concurrent contexts
MaxPairDownloads == 2   \* downloads counted per session when two identities are followed
MaxPairAdViews == 2     \* ad views counted per session when two identities are followed

(***************************************************************************)
(* Program constants.                                                      *)
(***************************************************************************)
DefaultTtl == 300    \* CacheManager(max_size=100, default_ttl=300)
Day == 86400         \* timedelta(days=1), timedelta(hours=24)
BypassWindow == 1800 \* timedelta(minutes=30)
BypassAdViews == 3   \* ad views that open the fast lane
DailyLimit == 10     \* free tier: downloads per day
PremiumRemaining == 999
UnknownRemaining == 10

None == "None"       \* Python's None

(***************************************************************************)
(* Locators.  A str the program reads (a locator, an address, a user       *)
(* agent, a key) is the sequence of the code points of its characters.     *)
(***************************************************************************)
\* the printable ASCII characters in order: U+0020 to U+005F, U+0061 to U+007E
Ascii ==
    << " ", "!", "\"", "#", "$", "%", "&", "'", "(", ")", "*", "+", ",", "-", ".",
       "/", "0", "1", "2", "3", "4", "5", "6", "7", "8", "9", ":", ";", "<", "=", ">",
       "?", "@", "A", "B", "C", "D", "E", "F", "G", "H", "I", "J", "K", "L", "M", "N",
       "O", "P", "Q", "R", "S", "T", "U", "V", "W", "X", "Y", "Z", "[", "\\", "]",
       "^", "_", "a", "b", "c", "d", "e", "f", "g", "h", "i", "j", "k", "l", "m",
       "n", "o", "p", "q", "r", "s", "t", "u", "v", "w", "x", "y", "z", "{", "|", "}",
       "~" >>
\* Python's ord of a printable ASCII character
ord(c) ==
    LET i == CHOOSE j \in DOMAIN Ascii : Ascii[j] = c
    IN  IF i <= 64 THEN 31 + i ELSE 32 + i
\* the str written with the characters of s: its code points
RECURSIVE Text(_)
Text(s) == IF s = <<>> THEN <<>> ELSE <<ord(Head(s))>> \o Text(Tail(s))

S_youtube_com == Text(<<"y","o","u","t","u","b","e",".","c","o","m">>)
S_youtu_be    == Text(<<"y","o","u","t","u",".","b","e">>)
S_watch       == Text(<<"/","w","a","t","c","h","?","v","=">>)
S_embed       == Text(<<"/","e","m","b","e","d","/">>)
S_v           == Text(<<"/","v","/">>)
S_slash       == Text(<<"/">>)
S_www         == Text(<<"w","w","w",".">>)
S_https       == Text(<<"h","t","t","p","s",":","/","/">>)
S_yt          == Text(<<"y","t","_">>)
S_md5         == Text(<<"m","d","5",":">>)
S_underscore  == Text(<<"_">>)

\* [\w-] of Python's re in a str pattern: the hyphen, the underscore and every
\* character that is alphanumeric in Unicode (14.0, the version of the
\* interpreter's unicodedata), as the ranges of code points first..last
WordRanges ==
    {<<45,45>>, <<48,57>>, <<65,90>>, <<95,95>>, <<97,122>>, <<170,170>>, <<178,179>>,
      <<181,181>>, <<185,186>>, <<188,190>>, <<192,214>>, <<216,246>>, <<248,705>>,
      <<710,721>>, <<736,740>>, <<748,748>>, <<750,750>>, <<880,884>>, <<886,887>>,
      <<890,893>>, <<895,895>>, <<902,902>>, <<904,906>>, <<908,908>>, <<910,929>>,
      <<931,1013>>, <<1015,1153>>, <<1162,1327>>, <<1329,1366>>, <<1369,1369>>,
      <<1376,1416>>, <<1488,1514>>, <<1519,1522>>, <<1568,1610>>, <<1632,1641>>,
      <<1646,1647>>, <<1649,1747>>, <<1749,1749>>, <<1765,1766>>, <<1774,1788>>,
      <<1791,1791>>, <<1808,1808>>, <<1810,1839>>, <<1869,1957>>, <<1969,1969>>,
      <<1984,2026>>, <<2036,2037>>, <<2042,2042>>, <<2048,2069>>, <<2074,2074>>,
      <<2084,2084>>, <<2088,2088>>, <<2112,2136>>, <<2144,2154>>, <<2160,2183>>,
      <<2185,2190>>, <<2208,2249>>, <<2308,2361>>, <<2365,2365>>, <<2384,2384>>,
      <<2392,2401>>, <<2406,2415>>, <<2417,2432>>, <<2437,2444>>, <<2447,2448>>,
      <<2451,2472>>, <<2474,2480>>, <<2482,2482>>, <<2486,2489>>, <<2493,2493>>,
      <<2510,2510>>, <<2524,2525>>, <<2527,2529>>, <<2534,2545>>, <<2548,2553>>,
      <<2556,2556>>, <<2565,2570>>, <<2575,2576>>, <<2579,2600>>, <<2602,2608>>,
      <<2610,2611>>, <<2613,2614>>, <<2616,2617>>, <<2649,2652>>, <<2654,2654>>,
      <<2662,2671>>, <<2674,2676>>, <<2693,2701>>, <<2703,2705>>, <<2707,2728>>,
      <<2730,2736>>, <<2738,2739>>, <<2741,2745>>, <<2749,2749>>, <<2768,2768>>,
      <<2784,2785>>, <<2790,2799>>, <<2809,2809>>, <<2821,2828>>, <<2831,2832>>,
      <<2835,2856>>, <<2858,2864>>, <<2866,2867>>, <<2869,2873>>, <<2877,2877>>,
      <<2908,2909>>, <<2911,2913>>, <<2918,2927>>, <<2929,2935>>, <<2947,2947>>,
      <<2949,2954>>, <<2958,2960>>, <<2962,2965>>, <<2969,2970>>, <<2972,2972>>,
      <<2974,2975>>, <<2979,2980>>, <<2984,2986>>, <<2990,3001>>, <<3024,3024>>,
      <<3046,3058>>, <<3077,3084>>, <<3086,3088>>, <<3090,3112>>, <<3114,3129>>,
      <<3133,3133>>, <<3160,3162>>, <<3165,3165>>, <<3168,3169>>, <<3174,3183>>,
      <<3192,3198>>, <<3200,3200>>, <<3205,3212>>, <<3214,3216>>, <<3218,3240>>,
      <<3242,3251>>, <<3253,3257>>, <<3261,3261>>, <<3293,3294>>, <<3296,3297>>,
      <<3302,3311>>, <<3313,3314>>, <<3332,3340>>, <<3342,3344>>, <<3346,3386>>,
      <<3389,3389>>, <<3406,3406>>, <<3412,3414>>, <<3416,3425>>, <<3430,3448>>,
      <<3450,3455>>, <<3461,3478>>, <<3482,3505>>, <<3507,3515>>, <<3517,3517>>,
      <<3520,3526>>, <<3558,3567>>, <<3585,3632>>, <<3634,3635>>, <<3648,3654>>,
      <<3664,3673>>, <<3713,3714>>, <<3716,3716>>, <<3718,3722>>, <<3724,3747>>,
      <<3749,3749>>, <<3751,3760>>, <<3762,3763>>, <<3773,3773>>, <<3776,3780>>,
      <<3782,3782>>, <<3792,3801>>, <<3804,3807>>, <<3840,3840>>, <<3872,3891>>,
      <<3904,3911>>, <<3913,3948>>, <<3976,3980>>, <<4096,4138>>, <<4159,4169>>,
      <<4176,4181>>, <<4186,4189>>, <<4193,4193>>, <<4197,4198>>, <<4206,4208>>,
      <<4213,4225>>, <<4238,4238>>, <<4240,4249>>, <<4256,4293>>, <<4295,4295>>,
      <<4301,4301>>, <<4304,4346>>, <<4348,4680>>, <<4682,4685>>, <<4688,4694>>,
      <<4696,4696>>, <<4698,4701>>, <<4704,4744>>, <<4746,4749>>, <<4752,4784>>,
      <<4786,4789>>, <<4792,4798>>, <<4800,4800>>, <<4802,4805>>, <<4808,4822>>,
      <<4824,4880>>, <<4882,4885>>, <<4888,4954>>, <<4969,4988>>, <<4992,5007>>,
      <<5024,5109>>, <<5112,5117>>, <<5121,5740>>, <<5743,5759>>, <<5761,5786>>,
      <<5792,5866>>, <<5870,5880>>, <<5888,5905>>, <<5919,5937>>, <<5952,5969>>,
      <<5984,5996>>, <<5998,6000>>, <<6016,6067>>, <<6103,6103>>, <<6108,6108>>,
      <<6112,6121>>, <<6128,6137>>, <<6160,6169>>, <<6176,6264>>, <<6272,6276>>,
      <<6279,6312>>, <<6314,6314>>, <<6320,6389>>, <<6400,6430>>, <<6470,6509>>,
      <<6512,6516>>, <<6528,6571>>, <<6576,6601>>, <<6608,6618>>, <<6656,6678>>,
      <<6688,6740>>, <<6784,6793>>, <<6800,6809>>, <<6823,6823>>, <<6917,6963>>,
      <<6981,6988>>, <<6992,7001>>, <<7043,7072>>, <<7086,7141>>, <<7168,7203>>,
      <<7232,7241>>, <<7245,7293>>, <<7296,7304>>, <<7312,7354>>, <<7357,7359>>,
      <<7401,7404>>, <<7406,7411>>, <<7413,7414>>, <<7418,7418>>, <<7424,7615>>,
      <<7680,7957>>, <<7960,7965>>, <<7968,8005>>, <<8008,8013>>, <<8016,8023>>,
      <<8025,8025>>, <<8027,8027>>, <<8029,8029>>, <<8031,8061>>, <<8064,8116>>,
      <<8118,8124>>, <<8126,8126>>, <<8130,8132>>, <<8134,8140>>, <<8144,8147>>,
      <<8150,8155>>, <<8160,8172>>, <<8178,8180>>, <<8182,8188>>, <<8304,8305>>,
      <<8308,8313>>, <<8319,8329>>, <<8336,8348>>, <<8450,8450>>, <<8455,8455>>,
      <<8458,8467>>, <<8469,8469>>, <<8473,8477>>, <<8484,8484>>, <<8486,8486>>,
      <<8488,8488>>, <<8490,8493>>, <<8495,8505>>, <<8508,8511>>, <<8517,8521>>,
      <<8526,8526>>, <<8528,8585>>, <<9312,9371>>, <<9450,9471>>, <<10102,10131>>,
      <<11264,11492>>, <<11499,11502>>, <<11506,11507>>, <<11517,11517>>,
      <<11520,11557>>, <<11559,11559>>, <<11565,11565>>, <<11568,11623>>,
      <<11631,11631>>, <<11648,11670>>, <<11680,11686>>, <<11688,11694>>,
      <<11696,11702>>, <<11704,11710>>, <<11712,11718>>, <<11720,11726>>,
      <<11728,11734>>, <<11736,11742>>, <<11823,11823>>, <<12293,12295>>,
      <<12321,12329>>, <<12337,12341>>, <<12344,12348>>, <<12353,12438>>,
      <<12445,12447>>, <<12449,12538>>, <<12540,12543>>, <<12549,12591>>,
      <<12593,12686>>, <<12690,12693>>, <<12704,12735>>, <<12784,12799>>,
      <<12832,12841>>, <<12872,12879>>, <<12881,12895>>, <<12928,12937>>,
      <<12977,12991>>, <<13312,19903>>, <<19968,42124>>, <<42192,42237>>,
      <<42240,42508>>, <<42512,42539>>, <<42560,42606>>, <<42623,42653>>,
      <<42656,42735>>, <<42775,42783>>, <<42786,42888>>, <<42891,42954>>,
      <<42960,42961>>, <<42963,42963>>, <<42965,42969>>, <<42994,43009>>,
      <<43011,43013>>, <<43015,43018>>, <<43020,43042>>, <<43056,43061>>,
      <<43072,43123>>, <<43138,43187>>, <<43216,43225>>, <<43250,43255>>,
      <<43259,43259>>, <<43261,43262>>, <<43264,43301>>, <<43312,43334>>,
      <<43360,43388>>, <<43396,43442>>, <<43471,43481>>, <<43488,43492>>,
      <<43494,43518>>, <<43520,43560>>, <<43584,43586>>, <<43588,43595>>,
      <<43600,43609>>, <<43616,43638>>, <<43642,43642>>, <<43646,43695>>,
      <<43697,43697>>, <<43701,43702>>, <<43705,43709>>, <<43712,43712>>,
      <<43714,43714>>, <<43739,43741>>, <<43744,43754>>, <<43762,43764>>,
      <<43777,43782>>, <<43785,43790>>, <<43793,43798>>, <<43808,43814>>,
      <<43816,43822>>, <<43824,43866>>, <<43868,43881>>, <<43888,44002>>,
      <<44016,44025>>, <<44032,55203>>, <<55216,55238>>, <<55243,55291>>,
      <<63744,64109>>, <<64112,64217>>, <<64256,64262>>, <<64275,64279>>,
      <<64285,64285>>, <<64287,64296>>, <<64298,64310>>, <<64312,64316>>,
      <<64318,64318>>, <<64320,64321>>, <<64323,64324>>, <<64326,64433>>,
      <<64467,64829>>, <<64848,64911>>, <<64914,64967>>, <<65008,65019>>,
      <<65136,65140>>, <<65142,65276>>, <<65296,65305>>, <<65313,65338>>,
      <<65345,65370>>, <<65382,65470>>, <<65474,65479>>, <<65482,65487>>,
      <<65490,65495>>, <<65498,65500>>, <<65536,65547>>, <<65549,65574>>,
      <<65576,65594>>, <<65596,65597>>, <<65599,65613>>, <<65616,65629>>,
      <<65664,65786>>, <<65799,65843>>, <<65856,65912>>, <<65930,65931>>,
      <<66176,66204>>, <<66208,66256>>, <<66273,66299>>, <<66304,66339>>,
      <<66349,66378>>, <<66384,66421>>, <<66432,66461>>, <<66464,66499>>,
      <<66504,66511>>, <<66513,66517>>, <<66560,66717>>, <<66720,66729>>,
      <<66736,66771>>, <<66776,66811>>, <<66816,66855>>, <<66864,66915>>,
      <<66928,66938>>, <<66940,66954>>, <<66956,66962>>, <<66964,66965>>,
      <<66967,66977>>, <<66979,66993>>, <<66995,67001>>, <<67003,67004>>,
      <<67072,67382>>, <<67392,67413>>, <<67424,67431>>, <<67456,67461>>,
      <<67463,67504>>, <<67506,67514>>, <<67584,67589>>, <<67592,67592>>,
      <<67594,67637>>, <<67639,67640>>, <<67644,67644>>, <<67647,67669>>,
      <<67672,67702>>, <<67705,67742>>, <<67751,67759>>, <<67808,67826>>,
      <<67828,67829>>, <<67835,67867>>, <<67872,67897>>, <<67968,68023>>,
      <<68028,68047>>, <<68050,68096>>, <<68112,68115>>, <<68117,68119>>,
      <<68121,68149>>, <<68160,68168>>, <<68192,68222>>, <<68224,68255>>,
      <<68288,68295>>, <<68297,68324>>, <<68331,68335>>, <<68352,68405>>,
      <<68416,68437>>, <<68440,68466>>, <<68472,68497>>, <<68521,68527>>,
      <<68608,68680>>, <<68736,68786>>, <<68800,68850>>, <<68858,68899>>,
      <<68912,68921>>, <<69216,69246>>, <<69248,69289>>, <<69296,69297>>,
      <<69376,69415>>, <<69424,69445>>, <<69457,69460>>, <<69488,69505>>,
      <<69552,69579>>, <<69600,69622>>, <<69635,69687>>, <<69714,69743>>,
      <<69745,69746>>, <<69749,69749>>, <<69763,69807>>, <<69840,69864>>,
      <<69872,69881>>, <<69891,69926>>, <<69942,69951>>, <<69956,69956>>,
      <<69959,69959>>, <<69968,70002>>, <<70006,70006>>, <<70019,70066>>,
      <<70081,70084>>, <<70096,70106>>, <<70108,70108>>, <<70113,70132>>,
      <<70144,70161>>, <<70163,70187>>, <<70272,70278>>, <<70280,70280>>,
      <<70282,70285>>, <<70287,70301>>, <<70303,70312>>, <<70320,70366>>,
      <<70384,70393>>, <<70405,70412>>, <<70415,70416>>, <<70419,70440>>,
      <<70442,70448>>, <<70450,70451>>, <<70453,70457>>, <<70461,70461>>,
      <<70480,70480>>, <<70493,70497>>, <<70656,70708>>, <<70727,70730>>,
      <<70736,70745>>, <<70751,70753>>, <<70784,70831>>, <<70852,70853>>,
      <<70855,70855>>, <<70864,70873>>, <<71040,71086>>, <<71128,71131>>,
      <<71168,71215>>, <<71236,71236>>, <<71248,71257>>, <<71296,71338>>,
      <<71352,71352>>, <<71360,71369>>, <<71424,71450>>, <<71472,71483>>,
      <<71488,71494>>, <<71680,71723>>, <<71840,71922>>, <<71935,71942>>,
      <<71945,71945>>, <<71948,71955>>, <<71957,71958>>, <<71960,71983>>,
      <<71999,71999>>, <<72001,72001>>, <<72016,72025>>, <<72096,72103>>,
      <<72106,72144>>, <<72161,72161>>, <<72163,72163>>, <<72192,72192>>,
      <<72203,72242>>, <<72250,72250>>, <<72272,72272>>, <<72284,72329>>,
      <<72349,72349>>, <<72368,72440>>, <<72704,72712>>, <<72714,72750>>,
      <<72768,72768>>, <<72784,72812>>, <<72818,72847>>, <<72960,72966>>,
      <<72968,72969>>, <<72971,73008>>, <<73030,73030>>, <<73040,73049>>,
      <<73056,73061>>, <<73063,73064>>, <<73066,73097>>, <<73112,73112>>,
      <<73120,73129>>, <<73440,73458>>, <<73648,73648>>, <<73664,73684>>,
      <<73728,74649>>, <<74752,74862>>, <<74880,75075>>, <<77712,77808>>,
      <<77824,78894>>, <<82944,83526>>, <<92160,92728>>, <<92736,92766>>,
      <<92768,92777>>, <<92784,92862>>, <<92864,92873>>, <<92880,92909>>,
      <<92928,92975>>, <<92992,92995>>, <<93008,93017>>, <<93019,93025>>,
      <<93027,93047>>, <<93053,93071>>, <<93760,93846>>, <<93952,94026>>,
      <<94032,94032>>, <<94099,94111>>, <<94176,94177>>, <<94179,94179>>,
      <<94208,100343>>, <<100352,101589>>, <<101632,101640>>, <<110576,110579>>,
      <<110581,110587>>, <<110589,110590>>, <<110592,110882>>, <<110928,110930>>,
      <<110948,110951>>, <<110960,111355>>, <<113664,113770>>, <<113776,113788>>,
      <<113792,113800>>, <<113808,113817>>, <<119520,119539>>, <<119648,119672>>,
      <<119808,119892>>, <<119894,119964>>, <<119966,119967>>, <<119970,119970>>,
      <<119973,119974>>, <<119977,119980>>, <<119982,119993>>, <<119995,119995>>,
      <<119997,120003>>, <<120005,120069>>, <<120071,120074>>, <<120077,120084>>,
      <<120086,120092>>, <<120094,120121>>, <<120123,120126>>, <<120128,120132>>,
      <<120134,120134>>, <<120138,120144>>, <<120146,120485>>, <<120488,120512>>,
      <<120514,120538>>, <<120540,120570>>, <<120572,120596>>, <<120598,120628>>,
      <<120630,120654>>, <<120656,120686>>, <<120688,120712>>, <<120714,120744>>,
      <<120746,120770>>, <<120772,120779>>, <<120782,120831>>, <<122624,122654>>,
      <<123136,123180>>, <<123191,123197>>, <<123200,123209>>, <<123214,123214>>,
      <<123536,123565>>, <<123584,123627>>, <<123632,123641>>, <<124896,124902>>,
      <<124904,124907>>, <<124909,124910>>, <<124912,124926>>, <<124928,125124>>,
      <<125127,125135>>, <<125184,125251>>, <<125259,125259>>, <<125264,125273>>,
      <<126065,126123>>, <<126125,126127>>, <<126129,126132>>, <<126209,126253>>,
      <<126255,126269>>, <<126464,126467>>, <<126469,126495>>, <<126497,126498>>,
      <<126500,126500>>, <<126503,126503>>, <<126505,126514>>, <<126516,126519>>,
      <<126521,126521>>, <<126523,126523>>, <<126530,126530>>, <<126535,126535>>,
      <<126537,126537>>, <<126539,126539>>, <<126541,126543>>, <<126545,126546>>,
      <<126548,126548>>, <<126551,126551>>, <<126553,126553>>, <<126555,126555>>,
      <<126557,126557>>, <<126559,126559>>, <<126561,126562>>, <<126564,126564>>,
      <<126567,126570>>, <<126572,126578>>, <<126580,126583>>, <<126585,126588>>,
      <<126590,126590>>, <<126592,126601>>, <<126603,126619>>, <<126625,126627>>,
      <<126629,126633>>, <<126635,126651>>, <<127232,127244>>, <<130032,130041>>,
      <<131072,173791>>, <<173824,177976>>, <<177984,178205>>, <<178208,183969>>,
      <<183984,191456>>, <<194560,195101>>, <<196608,201546>> }
WordChars == UNION { r[1]..r[2] : r \in WordRanges }

\* lit occurs in s starting at position i
OccursAt(s, lit, i) ==
    /\ i + Len(lit) - 1 <= Len(s)
    /\ \A j \in 1..Len(lit) : s[i + j - 1] = lit[j]

\* Python's `lit in s`
Contains(s, lit) == \E i \in 1..Len(s) : OccursAt(s, lit, i)

\* the longest run of [\w-] characters of s that starts at position i
RECURSIVE WordRun(_, _)
WordRun(s, i) ==
    IF i <= Len(s) /\ s[i] \in WordChars
    THEN <<s[i]>> \o WordRun(s, i + 1)
    ELSE <<>>

\* positions where the pattern  lit([\w-]+)  matches
MatchStarts(s, lit) ==
    { i \in 1..Len(s) : OccursAt(s, lit, i) /\ WordRun(s, i + Len(lit)) # <<>> }

\* no match of re.search, and no key out of the loop over the patterns: Python's
\* None where the other value is a str that is never empty
NoMatch == <<>>

\* re.search(lit([\w-]+), s).group(1): leftmost match, greedy group; NoMatch if none
re_search(lit, s) ==
    IF MatchStarts(s, lit) = {}
    THEN NoMatch
    ELSE LET i == CHOOSE m \in MatchStarts(s, lit) : \A o \in MatchStarts(s, lit) : m <= o
         IN  WordRun(s, i + Len(lit))

\* the four patterns of _generate_key, in the order they are tried
patterns ==
    << S_youtube_com \o S_watch,
       S_youtu_be \o S_slash,
       S_youtube_com \o S_embed,
       S_youtube_com \o S_v >>

\* two texts that are known to have one md5 digest (faad4986...0269)
Collision ==
    << Text(<<"T","E","X","T","C","O","L","L","B","Y","f","G","i","J","U","E",
              "T","H","Q","4","h","A","c","K","S","M","d","5","z","Y","p","g",
              "q","f","1","Y","R","D","h","k","m","x","H","k","h","P","W","p",
              "t","r","k","o","y","z","2","8","w","n","I","9","V","0","a","H",
              "e","A","u","a","K","n","a","k">>),
       Text(<<"T","E","X","T","C","O","L","L","B","Y","f","G","i","J","U","E",
              "T","H","Q","4","h","E","c","K","S","M","d","5","z","Y","p","g",
              "q","f","1","Y","R","D","h","k","m","x","H","k","h","P","W","p",
              "t","r","k","o","y","z","2","8","w","n","I","9","V","0","a","H",
              "e","A","u","a","K","n","a","k">>) >>

\* hashlib.md5(url.encode()).hexdigest(): a digest that is never of the form
\* yt_<id> (a hex digest holds no "y"); the two texts of Collision have one
\* digest, any other two strs are taken to differ in theirs
md5(s) == S_md5 \o (IF s = Collision[2] THEN Collision[1] ELSE s)

\* the first pattern, from index n on, that matches decides the key
RECURSIVE first_match(_, _)
first_match(url, n) ==
    IF n > Len(patterns)
    THEN NoMatch
    ELSE IF re_search(patterns[n], url) # NoMatch
         THEN S_yt \o re_search(patterns[n], url)
         ELSE first_match(url, n + 1)

\* variant: no normalisation, every locator is hashed
generate_key_raw(url) == md5(url)

generate_key(url) ==
    IF (Contains(url, S_youtube_com) \/ Contains(url, S_youtu_be))
          /\ first_match(url, 1) # NoMatch
    THEN first_match(url, 1)
    ELSE md5(url)

\* the locators of the model: one video in the four recognised shapes (with and
\* without scheme, host prefix and trailing parameters), a second video, a
\* page of another site whose path looks like a video path, and a third video
\* whose identifier holds letters that are not ASCII (U+00E9, U+03A9, U+65E5)
Id_a == Text(<<"a","-","1">>)
Id_b == Text(<<"b","_">>)
Id_c == <<233, 937, 26085, 49>>
U_watch_a == S_youtube_com \o S_watch \o Id_a
U_short_a == S_youtu_be \o S_slash \o Id_a \o Text(<<"?","t","=","5">>)
U_embed_a == S_https \o S_www \o S_youtube_com \o S_embed \o Id_a
U_v_a     == S_youtube_com \o S_v \o Id_a \o Text(<<"&","x">>)
U_watch_b == S_youtube_com \o S_watch \o Id_b
U_other   == Text(<<"e","x",".","i","o">>) \o S_v \o Id_a
U_watch_c == S_youtube_com \o S_watch \o Id_c
U_short_c == S_youtu_be \o S_slash \o Id_c

AllUrls == {U_watch_a, U_short_a, U_embed_a, U_v_a, U_watch_b, U_other, U_watch_c, U_short_c}

\* the locators the cache operations are called with: two locators of one video
\* and a second video; three distinct keys for the eviction order
Urls == {U_watch_a, U_short_a, U_watch_b}
UrlsLRU == {U_watch_a, U_watch_b, U_other}
UrlsStats == {U_watch_a, U_other}

\* _generate_key tabulated over the model's locators
RECURSIVE Tabulate(_)
Tabulate(S) ==
    IF S = {} THEN <<>>
    ELSE LET u == CHOOSE x \in S : TRUE
         IN  (u :> generate_key(u)) @@ Tabulate(S \ {u})
KeyTable == Tabulate(AllUrls)
AllKeys == {KeyTable[u] : u \in AllUrls}

Data == {"v1", "v2"}           \* payloads
DataLRU == {"v1"}
\* ttl arguments (Optional[int]): <<>> is the omitted argument, <<n>> the value n
Ttls == {<<>>, <<0>>, <<100>>}
TtlsLRU == {<<>>, <<100>>}
CacheTimes == {0, 100, 300}    \* the instants at which the clock is read

(***************************************************************************)
(* OrderedDict helpers.                                                    *)
(***************************************************************************)
KeysOf(c) == {c[i].key : i \in DOMAIN c}
KeyOrder(c) == [i \in DOMAIN c |-> c[i].key]
IndexOf(c, k) == CHOOSE i \in DOMAIN c : c[i].key = k
Lookup(c, k) == c[IndexOf(c, k)]
RemoveKey(c, k) == SelectSeq(c, LAMBDA e : e.key # k)

\* OrderedDict.move_to_end(key)
move_to_end(c, k) == RemoveKey(c, k) \o <<Lookup(c, k)>>

\* variant: a present key keeps its old entry (setdefault instead of assignment)
store_keep_old(c, k, e) == IF k \in KeysOf(c) THEN c ELSE Append(c, e)

\* self.cache[key] = entry: a present key keeps its place, a new one goes last
store_entry(c, k, e) ==
    IF k \in KeysOf(c) THEN [c EXCEPT ![IndexOf(c, k)] = e] ELSE Append(c, e)

\* variant: the bound is enforced one entry too late
RECURSIVE evict_above(_, _)
evict_above(c, n) == IF Len(c) > n + 1 THEN evict_above(Tail(c), n) ELSE c

\* while len(self.cache) > self.max_size: del self.cache[next(iter(self.cache))]
RECURSIVE enforce_max_size(_, _)
enforce_max_size(c, n) ==
    IF Len(c) > n THEN enforce_max_size(Tail(c), n) ELSE c

(***************************************************************************)
(* CacheManager operations as functions of the store st = [cache,          *)
(* hit_count, miss_count] and the clock t; each gives the store after the  *)
(* call and the value returned.                                            *)
(***************************************************************************)
CacheStore == [cache |-> cache, hit_count |-> hit_count, miss_count |-> miss_count]

\* variant: an entry is still served at the instant it expires
not_expired_inclusive(t, entry) == t <= entry.expires_at

not_expired(t, entry) == t < entry.expires_at

\* variant: a hit does not refresh the entry's recency
get_no_reorder(st, url, t) ==
    LET key == KeyTable[url] IN
    IF key \in KeysOf(st.cache)
    THEN LET entry == Lookup(st.cache, key) IN
         IF not_expired(t, entry)
         THEN [st |-> [st EXCEPT !.hit_count = st.hit_count + 1], result |-> entry.data]
         ELSE [st |-> [st EXCEPT !.cache = RemoveKey(st.cache, key),
                                 !.miss_count = st.miss_count + 1],
               result |-> None]
    ELSE [st |-> [st EXCEPT !.miss_count = st.miss_count + 1], result |-> None]

\* variant: an expired entry is reported as a miss but left in place
get_keep_expired(st, url, t) ==
    LET key == KeyTable[url] IN
    IF key \in KeysOf(st.cache) /\ not_expired(t, Lookup(st.cache, key))
    THEN [st |-> [st EXCEPT !.cache = move_to_end(st.cache, key),
                            !.hit_count = st.hit_count + 1],
          result |-> Lookup(st.cache, key).data]
    ELSE [st |-> [st EXCEPT !.miss_count = st.miss_count + 1], result |-> None]

\* variant: a get that finds an expired entry is not counted
get_expired_uncounted(st, url, t) ==
    LET key == KeyTable[url] IN
    IF key \in KeysOf(st.cache)
    THEN LET entry == Lookup(st.cache, key) IN
         IF not_expired(t, entry)
         THEN [st |-> [st EXCEPT !.cache = move_to_end(st.cache, key),
                                 !.hit_count = st.hit_count + 1],
               result |-> entry.data]
         ELSE [st |-> [st EXCEPT !.cache = RemoveKey(st.cache, key)], result |-> None]
    ELSE [st |-> [st EXCEPT !.miss_count = st.miss_count + 1], result |-> None]

get(st, url, t) ==
    LET key == KeyTable[url] IN
    IF key \in KeysOf(st.cache)
    THEN LET entry == Lookup(st.cache, key) IN
         IF not_expired(t, entry)
         THEN [st |-> [st EXCEPT !.cache = move_to_end(st.cache, key),
                                 !.hit_count = st.hit_count + 1],
               result |-> entry.data]
         ELSE [st |-> [st EXCEPT !.cache = RemoveKey(st.cache, key),
                                 !.miss_count = st.miss_count + 1],
               result |-> None]
    ELSE [st |-> [st EXCEPT !.miss_count = st.miss_count + 1], result |-> None]

\* ttl = ttl or self.default_ttl: None and 0 are both falsy
effective_ttl(ttl) == IF ttl = <<>> \/ ttl[1] = 0 THEN DefaultTtl ELSE ttl[1]

set(st, cap, url, data, ttl, t) ==
    LET key == KeyTable[url]
        entry == [key |-> key, data |-> data, expires_at |-> t + effective_ttl(ttl),
                  created_at |-> t, url |-> url]
        stored == move_to_end(store_entry(st.cache, key, entry), key)
    IN  [st |-> [st EXCEPT !.cache = enforce_max_size(stored, cap)], result |-> None]

\* variant: the least recently used entry is dropped in place of the key's
invalidate_oldest(st, url) ==
    LET key == generate_key(url) IN
    IF key \in KeysOf(st.cache)
    THEN [st |-> [st EXCEPT !.cache = Tail(st.cache)], result |-> TRUE]
    ELSE [st |-> st, result |-> FALSE]

invalidate(st, url) ==
    LET key == KeyTable[url] IN
    IF key \in KeysOf(st.cache)
    THEN [st |-> [st EXCEPT !.cache = RemoveKey(st.cache, key)], result |-> TRUE]
    ELSE [st |-> st, result |-> FALSE]

\* variant: the entries are dropped and the counters kept
clear_keep_counters(st) ==
    [st |-> [st EXCEPT !.cache = <<>>], result |-> None]

clear(st) ==
    [st |-> [cache |-> <<>>, hit_count |-> 0, miss_count |-> 0], result |-> None]

\* variant: an entry is swept only after the instant it expires at
is_expired_strict(t, entry) == t > entry.expires_at

is_expired(t, entry) == t >= entry.expires_at

cleanup_expired(st, t) ==
    LET expired_keys == {e.key : e \in {st.cache[i] : i \in DOMAIN st.cache}} \cap
                        {k \in KeysOf(st.cache) : is_expired(t, Lookup(st.cache, k))}
    IN  [st |-> [st EXCEPT !.cache = SelectSeq(st.cache, LAMBDA e : e.key \notin expired_keys)],
         result |-> Cardinality(expired_keys)]

(***************************************************************************)
(* get_stats.  hit_rate is the text f"{hit_rate:.2f}%" of the float        *)
(* hit_count / total_requests * 100.  A float is IEEE 754 binary64: the    *)
(* division and the multiplication each round their exact result to 53     *)
(* significant bits, a tie going to the even neighbour, and .2f prints     *)
(* the hundredth nearest to the exact value of the float it is given.  A   *)
(* positive float is [m, e]: 53 bits m, the highest first and set, and the *)
(* weight 2^e of the lowest bit.                                           *)
(***************************************************************************)
Precision == 53

DigitChars == <<"0", "1", "2", "3", "4", "5", "6", "7", "8", "9">>

\* str(n) for n >= 0
RECURSIVE Digits(_)
Digits(n) == IF n < 10 THEN <<DigitChars[n + 1]>> ELSE Digits(n \div 10) \o <<DigitChars[(n % 10) + 1]>>

\* the first n hexadecimal digits of the expansion of r / t, for 0 <= r < t
\* (the counters are below 2^27, so that 16 * r is a number of the model)
RECURSIVE quotient_digits(_, _, _)
quotient_digits(r, t, n) ==
    IF n = 0 THEN <<>>
    ELSE <<(16 * r) \div t>> \o quotient_digits((16 * r) % t, t, n - 1)

\* what is left of r after those n digits
RECURSIVE quotient_rem(_, _, _)
quotient_rem(r, t, n) == IF n = 0 THEN r ELSE quotient_rem((16 * r) % t, t, n - 1)

\* digits enough for the zeros a quotient of the model begins with, the bits
\* kept and the bit below them
QuotientDigits == 21

\* the bits of the hexadecimal digits, the highest first, and back
bits_of(digits) ==
    [j \in 1..(4 * Len(digits)) |->
        (digits[((j - 1) \div 4) + 1] \div <<8, 4, 2, 1>>[((j - 1) % 4) + 1]) % 2]
digits_of(bits) ==
    [k \in 1..(Len(bits) \div 4) |->
        8 * bits[4 * k - 3] + 4 * bits[4 * k - 2] + 2 * bits[4 * k - 1] + bits[4 * k]]

\* the place of the highest bit that is set
first_set(bits) == CHOOSE j \in 1..Len(bits) : bits[j] = 1 /\ \A i \in 1..(j - 1) : bits[i] = 0
any_set(bits, from) == \E i \in from..Len(bits) : bits[i] = 1

\* the hexadecimal digits of n, the highest first; none for 0
RECURSIVE hex_digits(_)
hex_digits(n) == IF n = 0 THEN <<>> ELSE hex_digits(n \div 16) \o <<n % 16>>

\* the number the bits stand for
RECURSIVE bits_value(_)
bits_value(bits) ==
    IF bits = <<>> THEN 0
    ELSE 2 * bits_value(SubSeq(bits, 1, Len(bits) - 1)) + bits[Len(bits)]

\* bits + 1
increment(bits) ==
    IF \A i \in 1..Len(bits) : bits[i] = 1
    THEN <<1>> \o [i \in 1..Len(bits) |-> 0]
    ELSE LET j == CHOOSE k \in 1..Len(bits) :
                     bits[k] = 0 /\ \A i \in (k + 1)..Len(bits) : bits[i] = 1
         IN  [i \in 1..Len(bits) |-> IF i < j THEN bits[i] ELSE IF i = j THEN 1 ELSE 0]

\* round to nearest, ties to even: m are the bits kept, of weight 2^e, next the
\* bit below them, sticky whether anything is set below that
round_to_even(m, e, next, sticky) ==
    LET up == next = 1 /\ (sticky \/ m[Len(m)] = 1)
        r == IF up THEN increment(m) ELSE m
    IN  IF Len(r) > Precision
        THEN [m |-> SubSeq(r, 1, Precision), e |-> e + 1]
        ELSE [m |-> r, e |-> e]

\* hits / total as a float, for 0 < hits <= total
float_div(hits, total) ==
    IF hits = total
    THEN [m |-> <<1>> \o [i \in 1..(Precision - 1) |-> 0], e |-> 1 - Precision]
    ELSE LET bits == bits_of(quotient_digits(hits, total, QuotientDigits))
             z == first_set(bits) - 1
         IN  round_to_even(SubSeq(bits, z + 1, z + Precision), 0 - (z + Precision),
                           bits[z + Precision + 1],
                           \/ any_set(bits, z + Precision + 2)
                           \/ quotient_rem(hits, total, QuotientDigits) # 0)

\* digits * k + carry, exact, for a small k
RECURSIVE mul_small(_, _, _)
mul_small(digits, k, carry) ==
    IF digits = <<>> THEN hex_digits(carry)
    ELSE LET x == digits[Len(digits)] * k + carry
         IN  mul_small(SubSeq(digits, 1, Len(digits) - 1), k, x \div 16) \o <<x % 16>>

\* the bits of bits * k, from the highest that is set
bits_times(bits, k) ==
    LET padded == [i \in 1..((4 - (Len(bits) % 4)) % 4) |-> 0] \o bits
        product == bits_of(mul_small(digits_of(padded), k, 0))
    IN  SubSeq(product, first_set(product), Len(product))

\* f * 100 as a float
float_mul_100(f) ==
    LET bits == bits_times(f.m, 100)
    IN  round_to_even(SubSeq(bits, 1, Precision), f.e + (Len(bits) - Precision),
                      bits[Precision + 1], any_set(bits, Precision + 2))

\* the integer nearest to f * 100, a tie going to the even one
float_hundredths(f) ==
    LET n == bits_times(f.m, 100)
        s == 0 - f.e                 \* the bits of n below the unit
        pad == IF s + 1 > Len(n) THEN s + 1 - Len(n) ELSE 0
        bits == [i \in 1..pad |-> 0] \o n
        L == Len(bits)
        whole == bits_value(SubSeq(bits, 1, L - s))
        up == bits[L - s + 1] = 1 /\ (any_set(bits, L - s + 2) \/ whole % 2 = 1)
    IN  IF up THEN whole + 1 ELSE whole

\* variant: the hundredths are cut off, not rounded
hundredths_floor(hits, total) ==
    IF total > 0 THEN (10000 * hits) \div total ELSE 0

\* hit_rate in hundredths of a percent, as .2f prints it; without requests
\* hit_rate is the integer 0
hundredths(hits, total) ==
    IF total > 0 /\ hits > 0
    THEN float_hundredths(float_mul_100(float_div(hits, total)))
    ELSE 0

\* f"{x:.2f}%"
format_percent(h) ==
    Digits(h \div 100) \o <<".", DigitChars[((h % 100) \div 10) + 1], DigitChars[(h % 10) + 1], "%">>

get_stats(st, cap) ==
    LET total_requests == st.hit_count + st.miss_count IN
    [st |-> st,
     result |-> [size |-> Len(st.cache), max_size |-> cap,
                 hit_count |-> st.hit_count, miss_count |-> st.miss_count,
                 hit_rate |-> format_percent(hundredths(st.hit_count, total_requests)),
                 total_requests |-> total_requests]]

(***************************************************************************)
(* History kept beside the cache, by the definition of a touch (a get hit  *)
(* or a set of the key), never read by the operations.                     *)
(***************************************************************************)
Touch(r, k) == SelectSeq(r, LAMBDA x : x # k) \o <<k>>
Restrict(r, ks) == SelectSeq(r, LAMBDA x : x \in ks)
NoWrite == [data |-> None, until |-> -1]
\* the entries of c whose key is gone in c2
RemovedBy(c, c2) == {e \in {c[i] : i \in DOMAIN c} : e.key \notin KeysOf(c2)}
Returned(op, arg, r) ==
    [op |-> op, arg |-> arg, result |-> r.result, removed |-> RemovedBy(cache, r.st.cache)]

(***************************************************************************)
(* Cache actions.                                                          *)
(***************************************************************************)
CacheUnchanged == UNCHANGED <<max_size, sessions, now, lock, pc, call, local, expect, reaper, app, handler, progress_store>>

Commit(r) ==
    /\ cache' = r.st.cache
    /\ hit_count' = r.st.hit_count
    /\ miss_count' = r.st.miss_count

Get(url) ==
    \E r \in {get(CacheStore, url, now)} :
    /\ Commit(r)
    /\ ret' = Returned("get", url, r)
    /\ recency' = Restrict(IF r.result # None THEN Touch(recency, KeyTable[url]) ELSE recency,
                           KeysOf(r.st.cache))
    /\ written' = written
    /\ CacheUnchanged

Set(url, data, ttl) ==
    \E r \in {set(CacheStore, max_size, url, data, ttl, now)}, key \in {KeyTable[url]} :
    /\ Commit(r)
    /\ ret' = Returned("set", url, r)
    /\ recency' = Restrict(Touch(recency, key), KeysOf(r.st.cache))
    /\ written' = [k \in AllKeys |->
                     IF k \in (KeysOf(cache) \cup {key}) \ KeysOf(r.st.cache) THEN NoWrite
                     ELSE IF k = key
                          THEN [data |-> data,
                                until |-> now + (IF ttl = <<>> THEN DefaultTtl ELSE ttl[1])]
                          ELSE written[k]]
    /\ CacheUnchanged

Invalidate(url) ==
    \E r \in {invalidate(CacheStore, url)} :
    /\ Commit(r)
    /\ ret' = Returned("invalidate", url, r)
    /\ recency' = Restrict(recency, KeysOf(r.st.cache))
    /\ written' = [written EXCEPT ![KeyTable[url]] = NoWrite]
    /\ CacheUnchanged

Clear ==
    \E r \in {clear(CacheStore)} :
    /\ Commit(r)
    /\ ret' = Returned("clear", <<>>, r)
    /\ recency' = <<>>
    /\ written' = [k \in AllKeys |-> NoWrite]
    /\ CacheUnchanged

CleanupExpired ==
    \E r \in {cleanup_expired(CacheStore, now)} :
    /\ Commit(r)
    /\ ret' = Returned("cleanup_expired", <<>>, r)
    /\ recency' = Restrict(recency, KeysOf(r.st.cache))
    /\ written' = written
    /\ CacheUnchanged

\* a plain method: it takes no lock and awaits nothing
GetStats ==
    \E r \in {get_stats(CacheStore, max_size)} :
    /\ Commit(r)
    /\ ret' = Returned("get_stats", <<>>, r)
    /\ UNCHANGED <<recency, written>>
    /\ CacheUnchanged

\* the clock moves on to a later instant
TickCache ==
    /\ \E t \in CacheTimes : t > now /\ now' = t
    /\ ret' = [op |-> "tick", arg |-> <<>>, result |-> None, removed |-> {}]
    /\ UNCHANGED <<cache, max_size, hit_count, miss_count, sessions, recency, written,
                   lock, pc, call, local, expect, reaper, app, handler, progress_store>>

(***************************************************************************)
(* SessionManager.  A session is the dict built by get_or_create_session;  *)
(* the key bypass_expiry exists only once increment_ad_view has set it.    *)
(***************************************************************************)
Ip_1 == Text(<<"1",".","2">>)
Ua_x == Text(<<"x">>)
Ua_y == Text(<<"y">>)
Clients == {<<Ip_1, Ua_x>>}
ClientPair == {<<Ip_1, Ua_x>>, <<Ip_1, Ua_y>>}
PairTimes == {0, 1800, 88200}
SessionTimes == {0, 900, 1800, 86400, 88200}   \* the instants at which the clock is read

\* hashlib.md5(f"{ip}_{user_agent}".encode()).hexdigest()
get_session_id(ip, user_agent) == md5(ip \o S_underscore \o user_agent)

SessionIdsOf(clients) == {get_session_id(c[1], c[2]) : c \in clients}
SessionIds == SessionIdsOf(Clients)

\* variant: a session is created premium
new_session_premium(id, t) ==
    [id |-> id, created_at |-> t, last_seen |-> t, download_count |-> 0,
     fetch_count |-> 0, daily_downloads |-> 0, last_reset |-> t,
     is_premium |-> TRUE, ad_views |-> 0, bypass_delay |-> FALSE]

new_session(id, t) ==
    [id |-> id, created_at |-> t, last_seen |-> t, download_count |-> 0,
     fetch_count |-> 0, daily_downloads |-> 0, last_reset |-> t,
     is_premium |-> FALSE, ad_views |-> 0, bypass_delay |-> FALSE]

\* variant: the daily counter is never rolled over
get_or_create_no_rollover(ss, ip, user_agent, t) ==
    LET id == get_session_id(ip, user_agent) IN
    IF id \notin DOMAIN ss
    THEN [ss |-> (id :> new_session(id, t)) @@ ss, result |-> new_session(id, t)]
    ELSE [ss |-> [ss EXCEPT ![id].last_seen = t],
          result |-> [ss[id] EXCEPT !.last_seen = t]]

\* variant: the window already rolls over at exactly one day
get_or_create_rollover_early(ss, ip, user_agent, t) ==
    LET id == get_session_id(ip, user_agent) IN
    IF id \notin DOMAIN ss
    THEN [ss |-> (id :> new_session(id, t)) @@ ss, result |-> new_session(id, t)]
    ELSE LET seen == [ss[id] EXCEPT !.last_seen = t]
             rolled == IF t - seen.last_reset >= Day
                       THEN [seen EXCEPT !.daily_downloads = 0, !.last_reset = t]
                       ELSE seen
         IN  [ss |-> [ss EXCEPT ![id] = rolled], result |-> rolled]

\* variant: every call starts the identity's session afresh
get_or_create_always_new(ss, ip, user_agent, t) ==
    LET id == get_session_id(ip, user_agent) IN
    [ss |-> (id :> new_session(id, t)) @@ ss, result |-> new_session(id, t)]

\* variant: the daily rollover also ends the bypass
get_or_create_rollover_ends_bypass(ss, ip, user_agent, t) ==
    LET id == get_session_id(ip, user_agent) IN
    IF id \notin DOMAIN ss
    THEN [ss |-> (id :> new_session(id, t)) @@ ss, result |-> new_session(id, t)]
    ELSE LET seen == [ss[id] EXCEPT !.last_seen = t]
             rolled == IF t - seen.last_reset > Day
                       THEN [seen EXCEPT !.daily_downloads = 0, !.last_reset = t,
                                         !.bypass_delay = FALSE]
                       ELSE seen
         IN  [ss |-> [ss EXCEPT ![id] = rolled], result |-> rolled]

get_or_create_session(ss, ip, user_agent, t) ==
    LET id == get_session_id(ip, user_agent) IN
    IF id \notin DOMAIN ss
    THEN [ss |-> (id :> new_session(id, t)) @@ ss, result |-> new_session(id, t)]
    ELSE LET seen == [ss[id] EXCEPT !.last_seen = t]
             rolled == IF t - seen.last_reset > Day
                       THEN [seen EXCEPT !.daily_downloads = 0, !.last_reset = t]
                       ELSE seen
         IN  [ss |-> [ss EXCEPT ![id] = rolled], result |-> rolled]

\* variant: a download is counted in the lifetime counter only
increment_download_lifetime_only(ss, id) ==
    IF id \in DOMAIN ss
    THEN [ss |-> [ss EXCEPT ![id].download_count = @ + 1], result |-> None]
    ELSE [ss |-> ss, result |-> None]

\* variant: a download is counted in the daily counter only
increment_download_daily_only(ss, id) ==
    IF id \in DOMAIN ss
    THEN [ss |-> [ss EXCEPT ![id].daily_downloads = @ + 1], result |-> None]
    ELSE [ss |-> ss, result |-> None]

increment_download(ss, id) ==
    IF id \in DOMAIN ss
    THEN [ss |-> [ss EXCEPT ![id].download_count = @ + 1, ![id].daily_downloads = @ + 1],
          result |-> None]
    ELSE [ss |-> ss, result |-> None]

\* variant: the window is opened by the ad view that reaches the threshold only
increment_ad_view_edge(ss, id, t) ==
    IF id \in DOMAIN ss
    THEN LET viewed == [ss[id] EXCEPT !.ad_views = @ + 1]
             opened == IF viewed.ad_views = BypassAdViews
                       THEN [bypass_expiry |-> t + BypassWindow]
                            @@ [viewed EXCEPT !.bypass_delay = TRUE]
                       ELSE viewed
         IN  [ss |-> [ss EXCEPT ![id] = opened], result |-> None]
    ELSE [ss |-> ss, result |-> None]

\* variant: the window is opened one ad view early
increment_ad_view_eager(ss, id, t) ==
    IF id \in DOMAIN ss
    THEN LET viewed == [ss[id] EXCEPT !.ad_views = @ + 1]
             opened == IF viewed.ad_views >= BypassAdViews - 1
                       THEN [bypass_expiry |-> t + BypassWindow]
                            @@ [viewed EXCEPT !.bypass_delay = TRUE]
                       ELSE viewed
         IN  [ss |-> [ss EXCEPT ![id] = opened], result |-> None]
    ELSE [ss |-> ss, result |-> None]

increment_ad_view(ss, id, t) ==
    IF id \in DOMAIN ss
    THEN LET viewed == [ss[id] EXCEPT !.ad_views = @ + 1]
             opened == IF viewed.ad_views >= BypassAdViews
                       THEN [bypass_expiry |-> t + BypassWindow]
                            @@ [viewed EXCEPT !.bypass_delay = TRUE]
                       ELSE viewed
         IN  [ss |-> [ss EXCEPT ![id] = opened], result |-> None]
    ELSE [ss |-> ss, result |-> None]

\* a second read of the clock within one body: the same instant or a later one
Later(t) == {t, t + 1}

\* session.get('bypass_expiry', datetime.now()): the default is a read of the
\* clock of its own, made after the read it is compared with
bypass_expiry_or(session, later) ==
    IF "bypass_expiry" \in DOMAIN session THEN session.bypass_expiry ELSE later

\* variant: the window still counts at the instant it ends
should_show_delay_inclusive(ss, id, t, later) ==
    IF id \notin DOMAIN ss THEN [ss |-> ss, result |-> TRUE]
    ELSE IF ss[id].is_premium THEN [ss |-> ss, result |-> FALSE]
    ELSE IF ss[id].bypass_delay
         THEN IF t <= bypass_expiry_or(ss[id], later)
              THEN [ss |-> ss, result |-> FALSE]
              ELSE [ss |-> [ss EXCEPT ![id].bypass_delay = FALSE], result |-> TRUE]
         ELSE [ss |-> ss, result |-> TRUE]

\* variant: the bypass is looked at before the premium flag
should_show_delay_bypass_first(ss, id, t, later) ==
    IF id \notin DOMAIN ss THEN [ss |-> ss, result |-> TRUE]
    ELSE IF ss[id].bypass_delay
         THEN IF t < bypass_expiry_or(ss[id], later)
              THEN [ss |-> ss, result |-> FALSE]
              ELSE [ss |-> [ss EXCEPT ![id].bypass_delay = FALSE],
                    result |-> ~ss[id].is_premium]
         ELSE [ss |-> ss, result |-> ~ss[id].is_premium]

\* variant: an unknown identity is shown no delay
should_show_delay_permissive(ss, id, t, later) ==
    IF id \notin DOMAIN ss THEN [ss |-> ss, result |-> FALSE]
    ELSE IF ss[id].is_premium THEN [ss |-> ss, result |-> FALSE]
    ELSE IF ss[id].bypass_delay
         THEN IF t < bypass_expiry_or(ss[id], later)
              THEN [ss |-> ss, result |-> FALSE]
              ELSE [ss |-> [ss EXCEPT ![id].bypass_delay = FALSE], result |-> TRUE]
         ELSE [ss |-> ss, result |-> TRUE]

should_show_delay(ss, id, t, later) ==
    IF id \notin DOMAIN ss THEN [ss |-> ss, result |-> TRUE]
    ELSE IF ss[id].is_premium THEN [ss |-> ss, result |-> FALSE]
    ELSE IF ss[id].bypass_delay
         THEN IF t < bypass_expiry_or(ss[id], later)
              THEN [ss |-> ss, result |-> FALSE]
              ELSE [ss |-> [ss EXCEPT ![id].bypass_delay = FALSE], result |-> TRUE]
         ELSE [ss |-> ss, result |-> TRUE]

\* datetime.isoformat(): the instant rendered as text, one text per instant
isoformat(t) == <<"iso", t>>

\* variant: the quota is reached one download late
get_rate_limit_status_late(ss, id) ==
    IF id \notin DOMAIN ss
    THEN [ss |-> ss, result |-> [limited |-> FALSE, remaining |-> UnknownRemaining]]
    ELSE IF ss[id].is_premium
    THEN [ss |-> ss, result |-> [limited |-> FALSE, remaining |-> PremiumRemaining]]
    ELSE LET remaining == DailyLimit - ss[id].daily_downloads IN
         [ss |-> ss,
          result |-> [limited |-> remaining < 0,
                      remaining |-> IF remaining > 0 THEN remaining ELSE 0,
                      reset_time |-> isoformat(ss[id].last_reset + Day)]]

get_rate_limit_status(ss, id) ==
    IF id \notin DOMAIN ss
    THEN [ss |-> ss, result |-> [limited |-> FALSE, remaining |-> UnknownRemaining]]
    ELSE IF ss[id].is_premium
    THEN [ss |-> ss, result |-> [limited |-> FALSE, remaining |-> PremiumRemaining]]
    ELSE LET remaining == DailyLimit - ss[id].daily_downloads IN
         [ss |-> ss,
          result |-> [limited |-> remaining <= 0,
                      remaining |-> IF remaining > 0 THEN remaining ELSE 0,
                      reset_time |-> isoformat(ss[id].last_reset + Day)]]

\* variant: a session last seen exactly 24 hours ago is removed too
cleanup_old_sessions_inclusive(ss, t) ==
    LET cutoff == t - Day
        old_sessions == {sid \in DOMAIN ss : ss[sid].last_seen <= cutoff}
    IN  [ss |-> [sid \in DOMAIN ss \ old_sessions |-> ss[sid]],
         result |-> Cardinality(old_sessions)]

cleanup_old_sessions(ss, t) ==
    LET cutoff == t - Day
        old_sessions == {sid \in DOMAIN ss : ss[sid].last_seen < cutoff}
    IN  [ss |-> [sid \in DOMAIN ss \ old_sessions |-> ss[sid]],
         result |-> Cardinality(old_sessions)]

(***************************************************************************)
(* Session actions.                                                        *)
(***************************************************************************)
SessionUnchanged ==
    UNCHANGED <<cache, max_size, hit_count, miss_count, now, recency, written,
                lock, pc, call, local, expect, reaper, app, handler, progress_store>>

\* the session dicts a call replaced or removed (history, never read by the operations)
ReplacedBy(ss, ss2) ==
    {ss[id] : id \in DOMAIN ss} \ {ss2[id] : id \in DOMAIN ss2}

SessionReturned(op, arg, r) ==
    [op |-> op, arg |-> arg, result |-> r.result, removed |-> ReplacedBy(sessions, r.ss)]

GetOrCreateSession(ip, user_agent) ==
    \E r \in {get_or_create_session(sessions, ip, user_agent, now)} :
    /\ sessions' = r.ss
    /\ ret' = SessionReturned("get_or_create_session", get_session_id(ip, user_agent), r)
    /\ SessionUnchanged

IncrementDownload(id) ==
    \E r \in {increment_download(sessions, id)} :
    /\ sessions' = r.ss
    /\ ret' = SessionReturned("increment_download", id, r)
    /\ SessionUnchanged

IncrementAdView(id) ==
    \E r \in {increment_ad_view(sessions, id, now)} :
    /\ sessions' = r.ss
    /\ ret' = SessionReturned("increment_ad_view", id, r)
    /\ SessionUnchanged

ShouldShowDelay(id) ==
    \E later \in Later(now) : \E r \in {should_show_delay(sessions, id, now, later)} :
    /\ sessions' = r.ss
    /\ ret' = SessionReturned("should_show_delay", id, r)
    /\ SessionUnchanged

GetRateLimitStatus(id) ==
    \E r \in {get_rate_limit_status(sessions, id)} :
    /\ sessions' = r.ss
    /\ ret' = SessionReturned("get_rate_limit_status", id, r)
    /\ SessionUnchanged

CleanupOldSessions ==
    \E r \in {cleanup_old_sessions(sessions, now)} :
    /\ sessions' = r.ss
    /\ ret' = SessionReturned("cleanup_old_sessions", <<>>, r)
    /\ SessionUnchanged

\* the premium flag set on a session from outside the store: no operation of the
\* store sets it, the store only reads it
GrantPremium(id) ==
    /\ id \in DOMAIN sessions
    /\ ~sessions[id].is_premium
    /\ sessions' = [sessions EXCEPT ![id].is_premium = TRUE]
    /\ ret' = [op |-> "grant_premium", arg |-> id, result |-> None, removed |-> {}]
    /\ SessionUnchanged

Known(id) == id \in DOMAIN sessions

TickSession ==
    /\ \E t \in SessionTimes : t > now /\ now' = t
    /\ ret' = [op |-> "tick", arg |-> <<>>, result |-> None, removed |-> {}]
    /\ UNCHANGED <<cache, max_size, hit_count, miss_count, sessions, recency, written,
                   lock, pc, call, local, expect, reaper, app, handler, progress_store>>

(***************************************************************************)
(* Concurrent request contexts on the cache.  Every operation is           *)
(*     async with self.lock: <body>                                        *)
(* A context calls, acquires the lock (or queues for it), runs the body    *)
(* statement group by statement group and releases.  The scheduler may     *)
(* run any other context between two steps.                                *)
(***************************************************************************)
Procs == {"p1", "p2"}
UrlsConc == {U_watch_a, U_watch_b}
DataConc == {"v1", "v2"}
TtlsConc == {<<100>>}
ConcTimes == {0, 100}

\* the task created by startup_event beside the request contexts
Reaper == "reaper"
Tasks == Procs \cup {Reaper}

SessionOpNames ==
    {"get_or_create_session", "increment_download", "increment_ad_view",
     "should_show_delay", "get_rate_limit_status", "cleanup_old_sessions"}
\* self.lock of the object the operation belongs to
StoreOf(op) == IF op \in SessionOpNames THEN "sessions" ELSE "cache"

Unlocked == [locked |-> FALSE, waiters |-> <<>>]
NoCall == [op |-> "none", url |-> <<>>, data |-> None, ttl |-> <<>>]
\* no handler coroutine is followed in the context.  The frame of a handler:
\* arg is what it was called with (the locator, or the client), and
\* fetch_video_info keeps the session it got (told by id and created_at),
\* show_delays, progress_id, request.use_cache and info
NoHandler == [name |-> "none", stage |-> "none", arg |-> <<>>,
              session_id |-> <<>>, created_at |-> 0, show_delays |-> FALSE,
              progress_id |-> <<>>, use_cache |-> FALSE, info |-> None]
NoLocal == [key |-> <<>>, found |-> FALSE, fresh |-> FALSE, data |-> None,
            expired_keys |-> <<>>]
\* no call under way: nothing is returned
NoExpect == [st |-> [cache |-> <<>>, hit_count |-> 0, miss_count |-> 0]]

CacheCalls(urls, data, ttls) ==
    {[op |-> "get", url |-> u, data |-> None, ttl |-> <<>>] : u \in urls}
    \cup {[op |-> "set", url |-> u, data |-> d, ttl |-> t] : u \in urls, d \in data, t \in ttls}
    \cup {[op |-> "invalidate", url |-> u, data |-> None, ttl |-> <<>>] : u \in urls}
    \cup {[op |-> o, url |-> <<>>, data |-> None, ttl |-> <<>>] : o \in {"clear", "cleanup_expired"}}

SessionCalls(clients) ==
    {[op |-> o, ip |-> c[1], user_agent |-> c[2], id |-> get_session_id(c[1], c[2])] :
        o \in {"get_or_create_session", "increment_download", "increment_ad_view"},
        c \in clients}
SweepCache == [op |-> "cleanup_expired", url |-> <<>>, data |-> None, ttl |-> <<>>]
SweepSessions == [op |-> "cleanup_old_sessions", ip |-> <<>>, user_agent |-> <<>>, id |-> <<>>]

\* what the call was made with
ArgOf(c) == IF c.op \in SessionOpNames THEN c.id ELSE c.url

\* the first statement group of each operation's body
FirstLabel(op) ==
    CASE op = "get" -> "get_check"
      [] op = "set" -> "set_store"
      [] op = "invalidate" -> "invalidate_check"
      [] op = "cleanup_expired" -> "cleanup_scan"
      [] op = "clear" -> "clear_all"
      [] op = "increment_download" -> "download_read"
      [] op = "increment_ad_view" -> "ad_view_read"
      [] op \in {"get_or_create_session", "cleanup_old_sessions",
                  "get_rate_limit_status", "should_show_delay"} -> "session_body"

\* variant: the body is entered without waiting for the lock
enter_unlocked(l) == TRUE

\* asyncio.Lock.acquire returns at once iff the lock is free and nobody queues
can_acquire(l) == ~l.locked /\ l.waiters = <<>>

enqueue(l, p) == [l EXCEPT !.waiters = Append(@, p)]
\* release() wakes the first waiter, which then takes the lock
woken(l, p) == ~l.locked /\ l.waiters # <<>> /\ Head(l.waiters) = p
take(l) == [l EXCEPT !.locked = TRUE]
\* variant: leaving the body does not give the lock back
release_never(l) == l
take_woken(l) == [locked |-> TRUE, waiters |-> Tail(l.waiters)]
release(l) == [l EXCEPT !.locked = FALSE]

\* the statement groups of the bodies; each gives the store after it, and the
\* last of a body the value returned (raised: a KeyError left the body)
get_check(st, url, t) ==
    LET key == KeyTable[url]
        found == key \in KeysOf(st.cache) IN
    [NoLocal EXCEPT !.key = key, !.found = found,
                    !.fresh = found /\ not_expired(t, Lookup(st.cache, key)),
                    !.data = IF found THEN Lookup(st.cache, key).data ELSE None]

get_act(st, loc) ==
    IF loc.found /\ loc.key \notin KeysOf(st.cache)
    THEN [st |-> st, result |-> None, raised |-> TRUE]
    ELSE IF loc.found /\ loc.fresh
    THEN [st |-> [st EXCEPT !.cache = move_to_end(st.cache, loc.key),
                            !.hit_count = st.hit_count + 1],
          result |-> loc.data, raised |-> FALSE]
    ELSE IF loc.found
    THEN [st |-> [st EXCEPT !.cache = RemoveKey(st.cache, loc.key),
                            !.miss_count = st.miss_count + 1],
          result |-> None, raised |-> FALSE]
    ELSE [st |-> [st EXCEPT !.miss_count = st.miss_count + 1],
          result |-> None, raised |-> FALSE]

set_store(st, url, data, ttl, t) ==
    LET key == KeyTable[url]
        entry == [key |-> key, data |-> data, expires_at |-> t + effective_ttl(ttl),
                  created_at |-> t, url |-> url]
    IN  [st EXCEPT !.cache = store_entry(st.cache, key, entry)]

set_move(st, loc) ==
    IF loc.key \in KeysOf(st.cache)
    THEN [st |-> [st EXCEPT !.cache = move_to_end(st.cache, loc.key)], raised |-> FALSE]
    ELSE [st |-> st, raised |-> TRUE]

set_evict(st, cap) == [st EXCEPT !.cache = enforce_max_size(st.cache, cap)]

invalidate_check(st, url) ==
    [NoLocal EXCEPT !.key = KeyTable[url], !.found = KeyTable[url] \in KeysOf(st.cache)]

invalidate_del(st, loc) ==
    IF ~loc.found THEN [st |-> st, result |-> FALSE, raised |-> FALSE]
    ELSE IF loc.key \in KeysOf(st.cache)
    THEN [st |-> [st EXCEPT !.cache = RemoveKey(st.cache, loc.key)],
          result |-> TRUE, raised |-> FALSE]
    ELSE [st |-> st, result |-> FALSE, raised |-> TRUE]

cleanup_scan(st, t) ==
    [NoLocal EXCEPT !.expired_keys =
        KeyOrder(SelectSeq(st.cache, LAMBDA e : is_expired(t, e)))]

\* for key in expired_keys: del self.cache[key]
RECURSIVE del_keys(_, _)
del_keys(c, ks) ==
    IF ks = <<>> THEN [cache |-> c, raised |-> FALSE]
    ELSE IF Head(ks) \in KeysOf(c) THEN del_keys(RemoveKey(c, Head(ks)), Tail(ks))
    ELSE [cache |-> c, raised |-> TRUE]

cleanup_del(st, loc) ==
    LET d == del_keys(st.cache, loc.expired_keys) IN
    [st |-> [st EXCEPT !.cache = d.cache],
     result |-> Len(loc.expired_keys), raised |-> d.raised]

ConcUnchanged == UNCHANGED <<max_size, sessions, now, recency, written, reaper, app, progress_store>>
StoreUnchanged == UNCHANGED <<cache, hit_count, miss_count>>
CommitStore(st) ==
    /\ cache' = st.cache
    /\ hit_count' = st.hit_count
    /\ miss_count' = st.miss_count

\* the call's outcome if its whole body ran now
Atomic(c) ==
    CASE c.op = "get" -> get(CacheStore, c.url, now)
      [] c.op = "set" -> set(CacheStore, max_size, c.url, c.data, c.ttl, now)
      [] c.op = "invalidate" -> invalidate(CacheStore, c.url)
      [] c.op = "cleanup_expired" -> cleanup_expired(CacheStore, now)
      [] c.op = "clear" -> clear(CacheStore)

\* the body of p's call goes on to the statement group at label
Goto(p, label, loc, exp) ==
    /\ pc' = [pc EXCEPT ![p] = label]
    /\ local' = [local EXCEPT ![p] = loc]
    /\ expect' = [expect EXCEPT ![p] = exp]
    /\ UNCHANGED <<lock, call, ret, handler>>

\* download_video from `info = get_video_info(url)` on: no such name is bound
\* in the module, the NameError is caught by `except Exception` and answered
\* with 500; the download and increment_download are not reached
download_resumed(ss, h) == [ss |-> ss, h |-> NoHandler, response |-> 500]

\* the call the task makes next when this one returned: in a tick
\* cleanup_old_sessions follows cleanup_expired; download_video asks for the
\* session, then for its quota and, unless the quota is used up (429), for the
\* delay; any other coroutine awaits something else, or is done
Awaits(p, c, result, raised) ==
    IF raised THEN NoCall
    ELSE IF p = Reaper /\ c.op = "cleanup_expired" THEN SweepSessions
    ELSE IF handler[p].name = "download_video" /\ c.op = "get_or_create_session"
    THEN [c EXCEPT !.op = "get_rate_limit_status"]
    ELSE IF handler[p].name = "download_video" /\ c.op = "get_rate_limit_status"
    THEN IF result.limited THEN NoCall ELSE [c EXCEPT !.op = "should_show_delay"]
    ELSE NoCall

\* the coroutine h when the call c it awaited returned
resumed(h, c, result, raised) ==
    IF h.name = "none" THEN h
    ELSE IF raised THEN NoHandler
    ELSE IF h.name = "download_video" /\ c.op = "get_or_create_session" THEN h
    ELSE IF h.name = "download_video" /\ c.op = "get_rate_limit_status"
    THEN IF result.limited THEN NoHandler ELSE h
    ELSE IF h.name = "download_video" /\ c.op = "should_show_delay"
    THEN IF result THEN [h EXCEPT !.stage = "sleep_preparing", !.show_delays = TRUE]
         ELSE download_resumed(<<>>, h).h
    ELSE NoHandler

\* the body of p's call is left: the lock is released and the call returns, or
\* raises the KeyError of a del or move_to_end on a key that is gone
Return(p, result, raised) ==
    /\ pc' = [pc EXCEPT ![p] = IF Awaits(p, call[p], result, raised) = NoCall
                              THEN "idle" ELSE "acquire"]
    /\ call' = [call EXCEPT ![p] = Awaits(p, call[p], result, raised)]
    /\ handler' = [handler EXCEPT ![p] = resumed(@, call[p], result, raised)]
    /\ local' = [local EXCEPT ![p] = NoLocal]
    /\ expect' = [expect EXCEPT ![p] = NoExpect]
    /\ lock' = [lock EXCEPT ![StoreOf(call[p].op)] = release(@)]
    /\ ret' = IF raised
              THEN [op |-> "KeyError", arg |-> ArgOf(call[p]), result |-> None, removed |-> {}]
              ELSE [op |-> call[p].op, arg |-> ArgOf(call[p]), result |-> result, removed |-> {}]

\* the coroutine of p, now h, awaits the call c
CallAs(p, c, h) ==
    /\ pc[p] = "idle"
    /\ pc' = [pc EXCEPT ![p] = "acquire"]
    /\ call' = [call EXCEPT ![p] = c]
    /\ UNCHANGED <<lock, local, expect, ret>>
    /\ handler' = [handler EXCEPT ![p] = h]
    /\ StoreUnchanged /\ ConcUnchanged

Call(p, c) == CallAs(p, c, handler[p])

Acquire(p) ==
    /\ pc[p] = "acquire"
    /\ IF can_acquire(lock[StoreOf(call[p].op)])
       THEN /\ lock' = [lock EXCEPT ![StoreOf(call[p].op)] = take(@)]
            /\ pc' = [pc EXCEPT ![p] = FirstLabel(call[p].op)]
       ELSE /\ lock' = [lock EXCEPT ![StoreOf(call[p].op)] = enqueue(@, p)]
            /\ pc' = [pc EXCEPT ![p] = "wait"]
    /\ UNCHANGED <<call, local, expect, ret, handler>>
    /\ StoreUnchanged /\ ConcUnchanged

Resume(p) ==
    /\ pc[p] = "wait"
    /\ woken(lock[StoreOf(call[p].op)], p)
    /\ lock' = [lock EXCEPT ![StoreOf(call[p].op)] = take_woken(@)]
    /\ pc' = [pc EXCEPT ![p] = FirstLabel(call[p].op)]
    /\ UNCHANGED <<call, local, expect, ret, handler>>
    /\ StoreUnchanged /\ ConcUnchanged

GetCheck(p) ==
    /\ pc[p] = "get_check"
    /\ Goto(p, "get_act", get_check(CacheStore, call[p].url, now), Atomic(call[p]))
    /\ StoreUnchanged /\ ConcUnchanged

GetAct(p) ==
    /\ pc[p] = "get_act"
    /\ \E r \in {get_act(CacheStore, local[p])} :
          CommitStore(r.st) /\ Return(p, r.result, r.raised)
    /\ ConcUnchanged

SetStore(p) ==
    /\ pc[p] = "set_store"
    /\ Goto(p, "set_move", [NoLocal EXCEPT !.key = KeyTable[call[p].url]], Atomic(call[p]))
    /\ CommitStore(set_store(CacheStore, call[p].url, call[p].data, call[p].ttl, now))
    /\ ConcUnchanged

SetMove(p) ==
    /\ pc[p] = "set_move"
    /\ \E r \in {set_move(CacheStore, local[p])} :
          /\ CommitStore(r.st)
          /\ IF r.raised
             THEN Return(p, None, TRUE)
             ELSE Goto(p, "set_evict", local[p], expect[p])
    /\ ConcUnchanged

SetEvict(p) ==
    /\ pc[p] = "set_evict"
    /\ CommitStore(set_evict(CacheStore, max_size))
    /\ Return(p, None, FALSE)
    /\ ConcUnchanged

InvalidateCheck(p) ==
    /\ pc[p] = "invalidate_check"
    /\ Goto(p, "invalidate_del", invalidate_check(CacheStore, call[p].url), Atomic(call[p]))
    /\ StoreUnchanged /\ ConcUnchanged

InvalidateDel(p) ==
    /\ pc[p] = "invalidate_del"
    /\ \E r \in {invalidate_del(CacheStore, local[p])} :
          CommitStore(r.st) /\ Return(p, r.result, r.raised)
    /\ ConcUnchanged

CleanupScan(p) ==
    /\ pc[p] = "cleanup_scan"
    /\ Goto(p, "cleanup_del", cleanup_scan(CacheStore, now), Atomic(call[p]))
    /\ StoreUnchanged /\ ConcUnchanged

CleanupDel(p) ==
    /\ pc[p] = "cleanup_del"
    /\ \E r \in {cleanup_del(CacheStore, local[p])} :
          CommitStore(r.st) /\ Return(p, r.result, r.raised)
    /\ ConcUnchanged

ClearAll(p) ==
    /\ pc[p] = "clear_all"
    /\ \E r \in {clear(CacheStore)} :
          CommitStore(r.st) /\ Return(p, r.result, FALSE)
    /\ ConcUnchanged

TickConc ==
    /\ \E t \in ConcTimes : t > now /\ now' = t
    /\ ret' = [op |-> "tick", arg |-> <<>>, result |-> None, removed |-> {}]
    /\ UNCHANGED <<cache, max_size, hit_count, miss_count, sessions, recency, written,
                   lock, pc, call, local, expect, reaper, app, handler, progress_store>>

\* gets under way
GetsInFlight == Cardinality({p \in Procs : pc[p] # "idle" /\ call[p].op = "get"})

NextConc ==
    \/ \E p \in Procs, c \in CacheCalls(UrlsConc, DataConc, TtlsConc) :
          /\ c.op = "get" => hit_count + miss_count + GetsInFlight < MaxRequests
          /\ Call(p, c)
    \/ \E p \in Procs : Acquire(p)
    \/ \E p \in Procs : Resume(p)
    \/ \E p \in Procs : GetCheck(p)
    \/ \E p \in Procs : GetAct(p)
    \/ \E p \in Procs : SetStore(p)
    \/ \E p \in Procs : SetMove(p)
    \/ \E p \in Procs : SetEvict(p)
    \/ \E p \in Procs : InvalidateCheck(p)
    \/ \E p \in Procs : InvalidateDel(p)
    \/ \E p \in Procs : CleanupScan(p)
    \/ \E p \in Procs : CleanupDel(p)
    \/ \E p \in Procs : ClearAll(p)
    \/ TickConc

(***************************************************************************)
(* The same contexts on the session store, and the background task as one  *)
(* more context: in a tick it awaits cleanup_expired and then              *)
(* cleanup_old_sessions.  A counter += 1 is a read and then a write.       *)
(***************************************************************************)
ClientsLocks == {<<Ip_1, Ua_x>>}
CountOf(id, field) == IF Known(id) THEN sessions[id][field] ELSE 0
UrlsLocks == {U_watch_a}
DataLocks == {"v1"}

\* if session_id in self.sessions, and the counters the += reads
session_read(ss, id) ==
    IF id \in DOMAIN ss
    THEN [found |-> TRUE, download_count |-> ss[id].download_count,
          daily_downloads |-> ss[id].daily_downloads, ad_views |-> ss[id].ad_views]
    ELSE [found |-> FALSE, download_count |-> 0, daily_downloads |-> 0, ad_views |-> 0]

\* the store as the context that read loc sees it when it writes
with_read(ss, id, loc) ==
    [ss EXCEPT ![id].download_count = loc.download_count,
               ![id].daily_downloads = loc.daily_downloads,
               ![id].ad_views = loc.ad_views]

download_write(ss, id, loc) ==
    IF ~loc.found THEN [ss |-> ss, result |-> None, raised |-> FALSE]
    ELSE IF id \in DOMAIN ss
    THEN LET r == increment_download(with_read(ss, id, [loc EXCEPT !.ad_views = ss[id].ad_views]), id)
         IN  [ss |-> r.ss, result |-> r.result, raised |-> FALSE]
    ELSE [ss |-> ss, result |-> None, raised |-> TRUE]

ad_view_write(ss, id, loc, t) ==
    IF ~loc.found THEN [ss |-> ss, result |-> None, raised |-> FALSE]
    ELSE IF id \in DOMAIN ss
    THEN LET r == increment_ad_view(
                     with_read(ss, id, [loc EXCEPT !.download_count = ss[id].download_count,
                                                   !.daily_downloads = ss[id].daily_downloads]),
                     id, t)
         IN  [ss |-> r.ss, result |-> r.result, raised |-> FALSE]
    ELSE [ss |-> ss, result |-> None, raised |-> TRUE]

session_body(ss, c, t, later) ==
    CASE c.op = "get_or_create_session" -> get_or_create_session(ss, c.ip, c.user_agent, t)
      [] c.op = "cleanup_old_sessions" -> cleanup_old_sessions(ss, t)
      [] c.op = "get_rate_limit_status" -> get_rate_limit_status(ss, c.id)
      [] c.op = "should_show_delay" -> should_show_delay(ss, c.id, t, later)

LocksUnchanged == UNCHANGED <<max_size, now, recency, written, reaper, app, progress_store>>

DownloadRead(p) ==
    /\ pc[p] = "download_read"
    /\ Goto(p, "download_write", session_read(sessions, call[p].id), NoExpect)
    /\ UNCHANGED sessions
    /\ StoreUnchanged /\ LocksUnchanged

DownloadWrite(p) ==
    /\ pc[p] = "download_write"
    /\ \E r \in {download_write(sessions, call[p].id, local[p])} :
          sessions' = r.ss /\ Return(p, r.result, r.raised)
    /\ StoreUnchanged /\ LocksUnchanged

AdViewRead(p) ==
    /\ pc[p] = "ad_view_read"
    /\ Goto(p, "ad_view_write", session_read(sessions, call[p].id), NoExpect)
    /\ UNCHANGED sessions
    /\ StoreUnchanged /\ LocksUnchanged

AdViewWrite(p) ==
    /\ pc[p] = "ad_view_write"
    /\ \E r \in {ad_view_write(sessions, call[p].id, local[p], now)} :
          sessions' = r.ss /\ Return(p, r.result, r.raised)
    /\ StoreUnchanged /\ LocksUnchanged

SessionBody(p) ==
    /\ pc[p] = "session_body"
    /\ \E later \in Later(now) : \E r \in {session_body(sessions, call[p], now, later)} :
          sessions' = r.ss /\ Return(p, r.result, FALSE)
    /\ StoreUnchanged /\ LocksUnchanged

\* increments under way on the session id
InFlight(op, id) ==
    Cardinality({p \in Procs : pc[p] # "idle" /\ call[p].op = op /\ call[p].id = id})

\* a step of context p inside a call it made
Step(p) ==
    \/ Acquire(p) \/ Resume(p)
    \/ SetStore(p) \/ SetMove(p) \/ SetEvict(p)
    \/ CleanupScan(p) \/ CleanupDel(p)
    \/ DownloadRead(p) \/ DownloadWrite(p)
    \/ SessionBody(p)

\* request contexts and the background task competing for the two locks
NextLocks ==
    \/ \E p \in Procs, c \in CacheCalls(UrlsLocks, DataLocks, TtlsConc) :
          c.op = "set" /\ Call(p, c)
    \/ \E p \in Procs, c \in SessionCalls(ClientsLocks) :
          /\ c.op # "increment_ad_view"
          /\ (c.op = "increment_download" /\ Known(c.id))
             => sessions[c.id].download_count + InFlight(c.op, c.id) < MaxLockDownloads
          /\ Call(p, c)
    \/ Call(Reaper, SweepCache)
    \/ \E p \in Tasks : Acquire(p)
    \/ \E p \in Tasks : Resume(p)
    \/ \E p \in Tasks : SetStore(p)
    \/ \E p \in Tasks : SetMove(p)
    \/ \E p \in Tasks : SetEvict(p)
    \/ \E p \in Tasks : CleanupScan(p)
    \/ \E p \in Tasks : CleanupDel(p)
    \/ \E p \in Tasks : DownloadRead(p)
    \/ \E p \in Tasks : DownloadWrite(p)
    \/ \E p \in Tasks : SessionBody(p)

\* the same with ad views counted and the statistics read
NextCounters ==
    \/ NextLocks
    \/ \E p \in Procs, c \in SessionCalls(ClientsLocks) :
          /\ c.op = "increment_ad_view"
          /\ Known(c.id) => sessions[c.id].ad_views + InFlight(c.op, c.id) < MaxLockAdViews
          /\ Call(p, c)
    \/ \E p \in Tasks : AdViewRead(p)
    \/ \E p \in Tasks : AdViewWrite(p)
    \/ GetStats

(***************************************************************************)
(* The handler of POST /download as a coroutine of a request context.      *)
(* When delays are shown it sleeps after its calls on the session store,   *)
(* and the other contexts run.                                             *)
(***************************************************************************)
\* download_video begins: session = await get_or_create_session(ip, user_agent)
DownloadBegin(p, c) ==
    /\ handler[p] = NoHandler
    /\ CallAs(p, [op |-> "get_or_create_session", ip |-> c[1], user_agent |-> c[2],
                  id |-> get_session_id(c[1], c[2])],
              [NoHandler EXCEPT !.name = "download_video", !.stage = "call", !.arg = c,
                                !.session_id = get_session_id(c[1], c[2])])

\* await asyncio.sleep(3) of download_video returns
DownloadWake(p) ==
    /\ handler[p].name = "download_video"
    /\ handler[p].stage = "sleep_preparing"
    /\ \E r \in {download_resumed(sessions, handler[p])} :
          /\ sessions' = r.ss
          /\ handler' = [handler EXCEPT ![p] = r.h]
          /\ ret' = [op |-> "download_video", arg |-> handler[p].session_id,
                     result |-> r.response, removed |-> ReplacedBy(sessions, r.ss)]
    /\ UNCHANGED <<pc, call, lock, local, expect>>
    /\ StoreUnchanged /\ LocksUnchanged

\* downloads of one identity requested at once
NextQuota ==
    \/ \E p \in Procs, c \in ClientsLocks : DownloadBegin(p, c)
    \/ \E p \in Procs : DownloadWake(p)
    \/ \E p \in Procs : Acquire(p)
    \/ \E p \in Procs : Resume(p)
    \/ \E p \in Procs : SessionBody(p)

(***************************************************************************)
(* The background task started by startup_event:                           *)
(*     while True:                                                         *)
(*         await asyncio.sleep(600)                                        *)
(*         try:                                                            *)
(*             expired_cache = await cache_manager.cleanup_expired()       *)
(*             old_sessions = await session_manager.cleanup_old_sessions() *)
(*             logger.info(...)                                            *)
(*         except Exception as e:                                          *)
(*             logger.error(...)                                           *)
(* The sleep is timed by the event loop's own clock, not by the wall clock *)
(* the stores read, so waking is a step of the task.  A sweep either       *)
(* returns or fails with an exception of one of the classes of Failures,   *)
(* raised before the sweep has written anything.                           *)
(***************************************************************************)
UrlsReaper == {U_watch_a, U_other}
DataReaper == {"v1"}
TtlsReaper == {<<>>}
ReaperTimes == {0, 300, 88200}

Failures == {"KeyError", "RuntimeError"}

\* variant: the loop has no except clause
caught_never(exc) == FALSE

\* except Exception: the classes the clause catches
caught(exc) == exc \in {"Exception", "KeyError", "RuntimeError"}

ReaperUnchanged == UNCHANGED <<max_size, now, lock, pc, call, local, expect, app, handler, progress_store>>

\* asyncio.sleep(600) returns and the tick begins
ReaperWake ==
    /\ reaper.pc = "sleep"
    /\ reaper' = [reaper EXCEPT !.pc = "cleanup_expired"]
    /\ UNCHANGED <<cache, hit_count, miss_count, sessions, recency, written, ret>>
    /\ ReaperUnchanged

ReaperRaise(exc) ==
    /\ reaper' = [reaper EXCEPT !.pc = "except", !.raised = exc]
    /\ UNCHANGED <<cache, hit_count, miss_count, sessions, recency, written, ret>>
    /\ ReaperUnchanged

\* variant: the tick ends after the sweep of the cache
ReaperCleanupExpired_alone ==
    /\ reaper.pc = "cleanup_expired"
    /\ \E r \in {cleanup_expired(CacheStore, now)} :
          /\ Commit(r)
          /\ ret' = Returned("cleanup_expired", <<>>, r)
          /\ recency' = Restrict(recency, KeysOf(r.st.cache))
          /\ reaper' = [reaper EXCEPT !.pc = "sleep", !.logged = "info"]
          /\ UNCHANGED <<sessions, written>>
          /\ ReaperUnchanged

ReaperCleanupExpired ==
    /\ reaper.pc = "cleanup_expired"
    /\ \/ \E r \in {cleanup_expired(CacheStore, now)} :
             /\ Commit(r)
             /\ ret' = Returned("cleanup_expired", <<>>, r)
             /\ recency' = Restrict(recency, KeysOf(r.st.cache))
             /\ reaper' = [reaper EXCEPT !.pc = "cleanup_old_sessions"]
             /\ UNCHANGED <<sessions, written>>
             /\ ReaperUnchanged
       \/ \E exc \in Failures : ReaperRaise(exc)

\* the second sweep, then logger.info and back to the sleep
ReaperCleanupOldSessions ==
    /\ reaper.pc = "cleanup_old_sessions"
    /\ \/ \E r \in {cleanup_old_sessions(sessions, now)} :
             /\ sessions' = r.ss
             /\ ret' = SessionReturned("cleanup_old_sessions", <<>>, r)
             /\ reaper' = [reaper EXCEPT !.pc = "sleep", !.logged = "info"]
             /\ UNCHANGED <<cache, hit_count, miss_count, recency, written>>
             /\ ReaperUnchanged
       \/ \E exc \in Failures : ReaperRaise(exc)

\* the except clause: a caught exception is logged and the loop goes on; one
\* that is not caught leaves the coroutine and ends the task
ReaperExcept ==
    /\ reaper.pc = "except"
    /\ reaper' = IF caught(reaper.raised)
                 THEN [pc |-> "sleep", raised |-> None, logged |-> "error"]
                 ELSE [reaper EXCEPT !.pc = "ended"]
    /\ UNCHANGED <<cache, hit_count, miss_count, sessions, recency, written, ret>>
    /\ ReaperUnchanged

ReaperNext ==
    \/ ReaperWake
    \/ ReaperCleanupExpired
    \/ ReaperCleanupOldSessions
    \/ ReaperExcept

\* shutdown_event: await cache_manager.clear(); the task is left as it is
Shutdown ==
    /\ app = "serving"
    /\ app' = "shutdown"
    /\ \E r \in {clear(CacheStore)} :
          /\ Commit(r)
          /\ ret' = Returned("clear", <<>>, r)
    /\ recency' = <<>>
    /\ written' = [k \in AllKeys |-> NoWrite]
    /\ UNCHANGED <<max_size, sessions, now, lock, pc, call, local, expect, reaper, handler,
                   progress_store>>

TickReaper ==
    /\ \E t \in ReaperTimes : t > now /\ now' = t
    /\ ret' = [op |-> "tick", arg |-> <<>>, result |-> None, removed |-> {}]
    /\ UNCHANGED <<cache, max_size, hit_count, miss_count, sessions, recency, written,
                   lock, pc, call, local, expect, reaper, app, handler, progress_store>>

\* requests are served until shutdown; the task runs on
NextReaper ==
    \/ \E url \in UrlsReaper, d \in DataReaper, ttl \in TtlsReaper :
          app = "serving" /\ Set(url, d, ttl)
    \/ \E c \in Clients : app = "serving" /\ GetOrCreateSession(c[1], c[2])
    \/ TickReaper
    \/ Shutdown
    \/ ReaperNext

(***************************************************************************)
(* The request handler of POST /fetch (fetch_video_info) as a coroutine of *)
(* a request context.  It runs until it awaits something that suspends     *)
(* it: one of the four asyncio.sleep of the delays shown for the ads, or   *)
(* the extractor.  A call on a store does not suspend it: the lock is free *)
(* whenever a coroutine asks for it, since no body of a store awaits.  A   *)
(* step of the handler is what it does from one suspension to the next,    *)
(* on the world w = [ss, st, ps] of the session store, the cache and       *)
(* progress_store; it gives the world after it, the frame h of the         *)
(* coroutine and, once the handler has ended, the status of the response.  *)
(* The sleeps are timed by the event loop's own clock, not by the wall     *)
(* clock the stores read, so waking is a step of the context.              *)
(***************************************************************************)
UrlsHandler == {U_watch_a, U_other}
HandlerTimes == {0, 1800}
ClientsHandler == {<<Ip_1, Ua_x>>}
FetchTtl == 300

\* what extract_with_retries gives: an info with formats the filter keeps, an
\* info with none (a storyboard only), or the exception of its last attempt
StoryboardOnly == "v0"
ExtractionError == "Exception"
Extractions == {"v1", StoryboardOnly, ExtractionError}

\* the groups of formats that are left
filter_formats_enhanced(info) == IF info = StoryboardOnly THEN {} ELSE {"mp4"}

\* the handler is suspended at stage, and there is no response yet (0)
Pending(w, h, stage) ==
    [ss |-> w.ss, st |-> w.st, ps |-> w.ps, h |-> [h EXCEPT !.stage = stage],
     response |-> 0, info |-> h.info]
\* the handler returned (200) or raised an HTTPException
Responded(w, h, status) ==
    [ss |-> w.ss, st |-> w.st, ps |-> w.ps, h |-> NoHandler,
     response |-> status, info |-> h.info]

\* progress_store[progress_id].append(report): a KeyError if the id is gone
progress_append(ps, progress_id, status) ==
    IF progress_id \in DOMAIN ps
    THEN [ps |-> [ps EXCEPT ![progress_id] = Append(@, status)], raised |-> FALSE]
    ELSE [ps |-> ps, raised |-> TRUE]

\* if show_delays: the report is appended and the handler sleeps at stage (a
\* KeyError is caught by `except Exception` and answered with 500); without
\* delays the handler goes on at once
delay_phase(w, h, status, stage, otherwise) ==
    IF ~h.show_delays THEN otherwise
    ELSE LET a == progress_append(w.ps, h.progress_id, status) IN
         IF a.raised THEN Responded(w, h, 500)
         ELSE Pending([w EXCEPT !.ps = a.ps], h, stage)

\* the progress list is dropped and the fetch counted in the session the
\* handler holds, which is the stored one unless it was swept in between
fetch_complete(w, h) ==
    LET held == /\ h.session_id \in DOMAIN w.ss
                /\ w.ss[h.session_id].created_at = h.created_at
    IN  Responded([w EXCEPT !.ps = [i \in DOMAIN w.ps \ {h.progress_id} |-> w.ps[i]],
                            !.ss = IF held
                                   THEN [w.ss EXCEPT ![h.session_id].fetch_count = @ + 1]
                                   ELSE w.ss],
                  h, 200)

\* the formats are filtered: 404 if none is left; then phase 4
fetch_formats(w, h) ==
    IF filter_formats_enhanced(h.info) = {}
    THEN Responded(w, h, 404)
    ELSE delay_phase(w, h, "complete", "sleep_complete", fetch_complete(w, h))

\* the handler has the info: phase 3
fetch_processing(w, h) ==
    delay_phase(w, h, "processing", "sleep_processing", fetch_formats(w, h))

\* variant: what was extracted is not stored
get_video_info_no_write_back(w, cap, h, extracted, t) ==
    IF extracted = ExtractionError
    THEN Responded(w, h, 400)
    ELSE fetch_processing(w, [h EXCEPT !.info = extracted])

\* get_video_info_with_cache from the return of extract_with_retries on: an
\* info is stored if use_cache, an exception answered with 400
get_video_info_extracted(w, cap, h, extracted, t) ==
    IF extracted = ExtractionError
    THEN Responded(w, h, 400)
    ELSE fetch_processing(
            [w EXCEPT !.st = IF h.use_cache
                             THEN set(w.st, cap, h.arg, extracted, <<FetchTtl>>, t).st
                             ELSE w.st],
            [h EXCEPT !.info = extracted])

\* get_video_info_with_cache up to the await of extract_with_retries: the
\* cached value if use_cache and there is one (every info is truthy)
get_video_info_with_cache(w, h, t) ==
    LET g == IF h.use_cache THEN get(w.st, h.arg, t) ELSE [st |-> w.st, result |-> None] IN
    IF g.result # None
    THEN fetch_processing([w EXCEPT !.st = g.st], [h EXCEPT !.info = g.result])
    ELSE Pending([w EXCEPT !.st = g.st], h, "extract")

\* phase 2, then the info is asked for
fetch_analyzing(w, h, t) ==
    delay_phase(w, h, "analyzing", "sleep_analyzing", get_video_info_with_cache(w, h, t))

\* the handler from the request to its first suspension: the session, the
\* delay gate, progress_store[f"{session_id}_{int(time.time())}"] = [], phase 1
fetch_video_info(w, ip, user_agent, url, use_cache, t, later) ==
    LET s == get_or_create_session(w.ss, ip, user_agent, t)
        id == s.result.id
        d == should_show_delay(s.ss, id, t, later)
        progress_id == <<id, t>>
        h == [NoHandler EXCEPT !.name = "fetch_video_info", !.arg = url,
                               !.session_id = id, !.created_at = s.result.created_at,
                               !.show_delays = d.result, !.progress_id = progress_id,
                               !.use_cache = use_cache]
        begun == [ss |-> d.ss, st |-> w.st,
                  ps |-> [i \in DOMAIN w.ps \cup {progress_id} |->
                             IF i = progress_id THEN <<>> ELSE w.ps[i]]]
    IN  delay_phase(begun, h, "initializing", "sleep_initializing",
                    fetch_analyzing(begun, h, t))

\* the handler when the sleep of h.stage returns
fetch_resumed(w, h, t) ==
    CASE h.stage = "sleep_initializing" -> fetch_analyzing(w, h, t)
      [] h.stage = "sleep_analyzing" -> get_video_info_with_cache(w, h, t)
      [] h.stage = "sleep_processing" -> fetch_formats(w, h)
      [] h.stage = "sleep_complete" -> fetch_complete(w, h)

World == [ss |-> sessions, st |-> CacheStore, ps |-> progress_store]

\* the step r of the coroutine of p, from the suspension `from`; stored: the
\* step stored what was extracted
FetchStep(p, from, h, r, stored) ==
    LET key == KeyTable[h.arg]
        touched == stored \/ r.st.hit_count > hit_count IN
    /\ Commit(r)
    /\ sessions' = r.ss
    /\ progress_store' = r.ps
    /\ handler' = [handler EXCEPT ![p] = r.h]
    /\ ret' = [op |-> "fetch_video_info", arg |-> h.session_id, result |-> r.response,
               removed |-> ReplacedBy(sessions, r.ss), url |-> h.arg,
               use_cache |-> h.use_cache, from |-> from, stage |-> r.h.stage,
               info |-> r.info]
    /\ recency' = Restrict(IF touched THEN Touch(recency, key) ELSE recency,
                           KeysOf(r.st.cache))
    /\ written' = [k \in AllKeys |->
                     IF k \in (KeysOf(cache) \cup {key}) \ KeysOf(r.st.cache) THEN NoWrite
                     ELSE IF k = key /\ stored
                          THEN [data |-> r.info, until |-> now + FetchTtl]
                          ELSE written[k]]
    /\ UNCHANGED <<max_size, now, lock, pc, call, local, expect, reaper, app>>

\* a request arrives in the context p
FetchBegin(p, ip, user_agent, url, use_cache) ==
    /\ pc[p] = "idle"
    /\ handler[p] = NoHandler
    /\ \E later \in Later(now) :
       \E r \in {fetch_video_info(World, ip, user_agent, url, use_cache, now, later)} :
          FetchStep(p, "request",
                    [NoHandler EXCEPT !.arg = url, !.use_cache = use_cache,
                                      !.session_id = get_session_id(ip, user_agent)],
                    r, FALSE)

\* an asyncio.sleep of the handler returns
FetchWake(p) ==
    /\ handler[p].name = "fetch_video_info"
    /\ handler[p].stage # "extract"
    /\ \E r \in {fetch_resumed(World, handler[p], now)} :
          FetchStep(p, handler[p].stage, handler[p], r, FALSE)

\* extract_with_retries returns x, or raises
ExtractDone(p, x) ==
    /\ handler[p].name = "fetch_video_info"
    /\ handler[p].stage = "extract"
    /\ \E r \in {get_video_info_extracted(World, max_size, handler[p], x, now)} :
          FetchStep(p, "extract", handler[p], r, handler[p].use_cache /\ x # ExtractionError)

Extracting(p) == handler[p].name = "fetch_video_info" /\ handler[p].stage = "extract"
\* requests under way that have not asked the cache yet
Arrived == {p \in Procs : /\ handler[p].name = "fetch_video_info"
                          /\ handler[p].stage \in {"sleep_initializing", "sleep_analyzing"}}
\* requests under way
Fetching == {p \in Procs : handler[p].name = "fetch_video_info"}

\* requests for metadata served at once
FetchNext(procs, clients, urls, fetches) ==
    \/ \E p \in procs, c \in clients, url \in urls, use_cache \in BOOLEAN :
          /\ hit_count + miss_count + Cardinality(Arrived) < fetches
          /\ CountOf(get_session_id(c[1], c[2]), "fetch_count") + Cardinality(Fetching)
                < fetches
          /\ FetchBegin(p, c[1], c[2], url, use_cache)
    \/ \E p \in procs : FetchWake(p)
    \/ \E p \in procs, x \in Extractions : ExtractDone(p, x)

NextFlight == FetchNext(Procs, ClientsHandler, UrlsConc, MaxFetches)
\* the same requests for one locator, while the clock moves past the ttl
NextFetch ==
    \/ FetchNext(Procs, ClientsHandler, UrlsLocks, MaxFetches)
    \/ TickSession /\ now' \in HandlerTimes

\* POST /download from the request to its first suspension: 429 when the quota
\* is used up; when delays are shown the handler sleeps (no response yet, 0)
download_video(ss, ip, user_agent, t, later) ==
    LET s == get_or_create_session(ss, ip, user_agent, t)
        id == s.result.id
        rate_status == get_rate_limit_status(s.ss, id)
        d == should_show_delay(s.ss, id, t, later)
        h == [NoHandler EXCEPT !.name = "download_video", !.stage = "sleep_preparing",
                               !.arg = <<ip, user_agent>>, !.session_id = id,
                               !.show_delays = d.result]
    IN  IF rate_status.result.limited
        THEN [ss |-> s.ss, h |-> NoHandler, response |-> 429]
        ELSE IF d.result THEN [ss |-> d.ss, h |-> h, response |-> 0]
        ELSE download_resumed(d.ss, h)

\* POST /track-ad-view
track_ad_view(ss, ip, user_agent, t, later) ==
    LET s == get_or_create_session(ss, ip, user_agent, t)
        id == s.result.id
        a == increment_ad_view(s.ss, id, t)
        d == should_show_delay(a.ss, id, t, later)
    IN  [ss |-> d.ss,
         result |-> [success |-> TRUE, ad_count |-> d.ss[id].ad_views,
                     fast_lane |-> ~d.result]]

\* GET /session-status
get_session_status(ss, ip, user_agent, t, later) ==
    LET s == get_or_create_session(ss, ip, user_agent, t)
        id == s.result.id
        rate_status == get_rate_limit_status(s.ss, id)
        d == should_show_delay(s.ss, id, t, later)
    IN  [ss |-> d.ss,
         result |-> [session_id |-> id,
                     downloads_today |-> d.ss[id].daily_downloads,
                     downloads_remaining |-> rate_status.result.remaining,
                     rate_limited |-> rate_status.result.limited,
                     show_delays |-> d.result,
                     ad_views |-> d.ss[id].ad_views,
                     fast_lane |-> ~d.result]]

HandlerReturned(op, ip, user_agent, r) ==
    /\ sessions' = r.ss
    /\ ret' = [op |-> op, arg |-> get_session_id(ip, user_agent), result |-> r.result,
               removed |-> ReplacedBy(sessions, r.ss)]
    /\ SessionUnchanged

\* a request to POST /download arrives in the context p
DownloadVideo(p, ip, user_agent) ==
    /\ pc[p] = "idle"
    /\ handler[p] = NoHandler
    /\ \E later \in Later(now) :
       \E r \in {download_video(sessions, ip, user_agent, now, later)} :
          /\ sessions' = r.ss
          /\ handler' = [handler EXCEPT ![p] = r.h]
          /\ ret' = [op |-> "download_video", arg |-> get_session_id(ip, user_agent),
                     result |-> r.response, removed |-> ReplacedBy(sessions, r.ss)]
    /\ UNCHANGED <<pc, call, lock, local, expect>>
    /\ StoreUnchanged /\ LocksUnchanged

TrackAdView(ip, user_agent) ==
    \E later \in Later(now) : \E r \in {track_ad_view(sessions, ip, user_agent, now, later)} :
       HandlerReturned("track_ad_view", ip, user_agent, r)

GetSessionStatus(ip, user_agent) ==
    \E later \in Later(now) : \E r \in {get_session_status(sessions, ip, user_agent, now, later)} :
       HandlerReturned("get_session_status", ip, user_agent, r)

\* requests to the four endpoints that use the stores
NextHandler ==
    \/ FetchNext({"p1"}, ClientsHandler, UrlsHandler, MaxHandlerFetches)
    \/ \E c \in ClientsHandler : DownloadVideo("p2", c[1], c[2])
    \/ DownloadWake("p2")
    \/ \E c \in ClientsHandler :
          /\ CountOf(get_session_id(c[1], c[2]), "ad_views") < MaxHandlerAdViews
          /\ TrackAdView(c[1], c[2])
    \/ \E c \in ClientsHandler : GetSessionStatus(c[1], c[2])
    \/ TickSession /\ now' \in HandlerTimes

Init ==
    /\ cache = <<>>
    /\ max_size \in 0..MaxCap
    /\ hit_count = 0
    /\ miss_count = 0
    /\ sessions = <<>>
    /\ now = 0
    /\ ret = [op |-> "init", arg |-> <<>>, result |-> None, removed |-> {}]
    /\ recency = <<>>
    /\ written = [k \in AllKeys |-> NoWrite]
    /\ lock = [s \in {"cache", "sessions"} |-> Unlocked]
    /\ pc = [p \in Tasks |-> "idle"]
    /\ call = [p \in Tasks |-> NoCall]
    /\ local = [p \in Tasks |-> NoLocal]
    /\ expect = [p \in Tasks |-> NoExpect]
    /\ handler = [p \in Tasks |-> NoHandler]
    /\ progress_store = <<>>
    /\ reaper = [pc |-> "sleep", raised |-> None, logged |-> "none"]
    /\ app = "serving"

NextCacheOn(urls, data, ttls) ==
    \/ \E url \in urls : hit_count + miss_count < MaxRequests /\ Get(url)
    \/ \E url \in urls, d \in data, ttl \in ttls : Set(url, d, ttl)
    \/ \E url \in urls : Invalidate(url)
    \/ Clear
    \/ CleanupExpired
    \/ TickCache

NextCache == NextCacheOn(Urls, Data, Ttls)

\* the cache with its statistics read between the calls
NextStats ==
    \/ \E url \in UrlsStats : hit_count + miss_count < MaxStatRequests /\ Get(url)
    \/ \E url \in UrlsStats, d \in DataLRU, ttl \in TtlsLRU : Set(url, d, ttl)
    \/ Clear
    \/ GetStats
    \/ TickCache
NextLRU == NextCacheOn(UrlsLRU, DataLRU, TtlsLRU)

NextSessionOn(clients, downloads, ad_views, times) ==
    \/ \E c \in clients : GetOrCreateSession(c[1], c[2])
    \/ \E c \in clients :
          LET id == get_session_id(c[1], c[2]) IN
          /\ Known(id) => sessions[id].download_count < downloads
          /\ IncrementDownload(id)
    \/ \E c \in clients :
          LET id == get_session_id(c[1], c[2]) IN
          /\ Known(id) => sessions[id].ad_views < ad_views
          /\ IncrementAdView(id)
    \/ \E c \in clients : ShouldShowDelay(get_session_id(c[1], c[2]))
    \/ \E c \in clients : GetRateLimitStatus(get_session_id(c[1], c[2]))
    \/ CleanupOldSessions
    \/ TickSession /\ now' \in times

NextSession == NextSessionOn(Clients, MaxDownloads, MaxAdViews, SessionTimes)
\* two identities behind one address
NextPair == NextSessionOn(ClientPair, MaxPairDownloads, MaxPairAdViews, PairTimes)

NextPremium ==
    \/ NextSession
    \/ \E id \in SessionIds : GrantPremium(id)

SpecSession == Init /\ [][NextSession]_vars
SpecPremium == Init /\ [][NextPremium]_vars
InitPair == Init /\ max_size = 0
SpecPair == InitPair /\ [][NextPair]_vars
\* the event loop runs a task that is ready to run
InitReaper == Init /\ max_size = MaxCap
SpecReaper == InitReaper /\ [][NextReaper]_vars /\ WF_vars(ReaperNext)
\* the sweeps are in-memory work: a sweep that is begun again and again completes
\* again and again
SweepCacheDone == ReaperCleanupExpired /\ reaper'.pc = "cleanup_old_sessions"
SweepSessionsDone == ReaperCleanupOldSessions /\ reaper'.pc = "sleep"
SpecReaperFair ==
    /\ InitReaper /\ [][NextReaper]_vars
    /\ WF_vars(ReaperNext) /\ SF_vars(SweepCacheDone) /\ SF_vars(SweepSessionsDone)
InitConc == Init /\ max_size = 1

\* a capacity above the number of keys in use never evicts
InitCache == Init /\ max_size <= Cardinality({KeyTable[u] : u \in Urls})
SpecCache == InitCache /\ [][NextCache]_vars
SpecConc == InitConc /\ [][NextConc]_vars
SpecLRU == Init /\ [][NextLRU]_vars
InitStats == Init /\ max_size = MaxCap
InitHandler == Init /\ max_size = 1
InitLocks == Init /\ max_size = 1
\* the event loop runs every task that is ready to run
SpecLocks == InitLocks /\ [][NextLocks]_vars /\ \A p \in Tasks : WF_vars(Step(p))
SpecCounters == InitLocks /\ [][NextCounters]_vars
SpecFlight == InitConc /\ [][NextFlight]_vars
SpecFetch == InitHandler /\ [][NextFetch]_vars
SpecQuota == InitLocks /\ [][NextQuota]_vars
SpecHandler == InitHandler /\ [][NextHandler]_vars
SpecStats == InitStats /\ [][NextStats]_vars

(***************************************************************************)
(* Properties of the cache.                                                *)
(***************************************************************************)
Min(a, b) == IF a <= b THEN a ELSE b
PosIn(r, k) == CHOOSE i \in DOMAIN r : r[i] = k
CacheStoreNext == [cache |-> cache', hit_count |-> hit_count', miss_count |-> miss_count']
\* the video a locator of the model refers to, by the way the locator was built
VideoOf(u) ==
    IF u \in {U_watch_a, U_short_a, U_embed_a, U_v_a} THEN "video a"
    ELSE IF u = U_watch_b THEN "video b"
    ELSE IF u \in {U_watch_c, U_short_c} THEN "video c"
    ELSE "no video"

\* C1: after every cache operation (get, set, invalidate, clear, cleanupExpired)
\* the number of stored entries is at most max_size.
C1_SizeWithinCapacity == Len(cache) <= max_size

\* a set that had to evict left the cache exactly full
C1_Witness ==
    /\ ret.op = "set"
    /\ ret.removed # {}
    /\ max_size = 2
    /\ Len(cache) = max_size

\* C2: a get that returns a value returns the data of an entry stored under the
\* locator's key whose expires_at is still ahead of the clock at the call.
C2_HitNotExpired ==
    [][ (ret'.op = "get" /\ ret'.result # None)
        => LET key == KeyTable[ret'.arg] IN
           /\ key \in KeysOf(cache)
           /\ now < Lookup(cache, key).expires_at
           /\ ret'.result = Lookup(cache, key).data ]_vars

\* a hit on an entry at a later instant than the one it was stored at
C2_Witness ==
    /\ ret.op = "get"
    /\ ret.result # None
    /\ \E i \in DOMAIN cache : cache[i].key = KeyTable[ret.arg] /\ cache[i].created_at < now

\* C3: a set removes exactly the least recently touched entries (a touch is a get
\* hit or a set of the key), as many as the size exceeds max_size, whatever their
\* remaining ttl: every evicted key was touched before every surviving key.
C3_EvictsLeastRecentlyTouched ==
    [][ ret'.op = "set"
        => LET key == KeyTable[ret'.arg]
               before == KeysOf(cache) \cup {key}
               after == KeysOf(cache')
               order == Touch(recency, key)
           IN  /\ after \subseteq before
               /\ Cardinality(after) = Min(Cardinality(before), max_size)
               /\ \A e \in before \ after, k \in after : PosIn(order, e) < PosIn(order, k)
               /\ KeyOrder(cache') = Restrict(order, after) ]_vars

\* capacity 2: the evicted entry was stored after a surviving one and had the
\* longer remaining ttl, the survivor having been touched by a get since
C3_Witness ==
    /\ ret.op = "set"
    /\ max_size = 2
    /\ Len(cache) = 2
    /\ \E r \in ret.removed, i \in DOMAIN cache :
          /\ r.created_at > cache[i].created_at
          /\ r.expires_at > cache[i].expires_at
          /\ now < cache[i].expires_at

\* C4: a get of a key that is present but expired returns a miss, removes that
\* entry and no other, counts one miss and no hit, and a cleanup_expired run next
\* would count one expired entry fewer.
C4_ExpiredGetRemoves ==
    [][ (/\ ret'.op = "get"
         /\ KeyTable[ret'.arg] \in KeysOf(cache)
         /\ now >= Lookup(cache, KeyTable[ret'.arg]).expires_at)
        => LET key == KeyTable[ret'.arg] IN
           /\ ret'.result = None
           /\ cache' = RemoveKey(cache, key)
           /\ Len(cache') = Len(cache) - 1
           /\ miss_count' = miss_count + 1
           /\ hit_count' = hit_count
           /\ cleanup_expired(CacheStoreNext, now).result
                 = cleanup_expired(CacheStore, now).result - 1 ]_vars

\* a get found an expired entry and removed it
C4_Witness ==
    /\ ret.op = "get"
    /\ ret.result = None
    /\ \E r \in ret.removed : r.key = KeyTable[ret.arg] /\ now >= r.expires_at

\* C5: cache calls made concurrently by several request contexts are
\* linearizable: every call that returns leaves the store (entries, their
\* recency order, the counters) and returns the value exactly as if its whole
\* body had run at the instant it first read the store, so the calls take effect
\* one at a time in the order of those instants; no call raises.
C5_Linearizable ==
    [][ \A p \in Procs :
          (/\ pc[p] \in {"get_act", "set_move", "set_evict", "invalidate_del", "cleanup_del"}
           /\ pc'[p] = "idle")
          => /\ ret'.op = call[p].op
             /\ CacheStoreNext = expect[p].st
             /\ ret'.result = expect[p].result ]_vars

\* a get hit returned while a set of the same key, called meanwhile, queues for the lock
C5_Witness ==
    /\ ret.op = "get"
    /\ ret.result = "v1"
    /\ \E q \in Procs :
          /\ pc[q] = "wait"
          /\ call[q].op = "set"
          /\ KeyTable[call[q].url] = KeyTable[ret.arg]

\* C6: a get of a key returns the value of the latest set of that key when that
\* set's ttl has not yet elapsed and the key was since neither invalidated,
\* cleared nor evicted.
C6_RoundTrip ==
    [][ (/\ ret'.op = "get"
         /\ written[KeyTable[ret'.arg]] # NoWrite
         /\ now < written[KeyTable[ret'.arg]].until)
        => ret'.result = written[KeyTable[ret'.arg]].data ]_vars

\* a get returned the value of a set that overwrote an earlier, different value
C6_Witness ==
    /\ ret.op = "get"
    /\ ret.result = "v2"
    /\ written[KeyTable[ret.arg]].data = "v2"
    /\ now > 0
    /\ now < written[KeyTable[ret.arg]].until

\* C7: locators of the same video in the watch?v=, youtu.be/, embed/ and /v/
\* shapes have one key, yt_<id>; a get through one locator hits the entry set
\* through another, and an invalidate through one removes it.
C7_ShapesCollapse ==
    /\ \A u1 \in AllUrls, u2 \in AllUrls :
          (VideoOf(u1) = VideoOf(u2) /\ VideoOf(u1) # "no video")
          => KeyTable[u1] = KeyTable[u2]
    /\ \A u \in AllUrls : VideoOf(u) = "video a" => KeyTable[u] = S_yt \o Id_a

C7_EquivalentLocatorsCollapse ==
    [][ /\ C7_ShapesCollapse
        /\ \A i \in DOMAIN cache :
              LET e == cache[i] IN
              /\ (/\ ret'.op = "get"
                   /\ VideoOf(ret'.arg) = VideoOf(e.url)
                   /\ now < e.expires_at)
                  => ret'.result = e.data
              /\ (ret'.op = "invalidate" /\ VideoOf(ret'.arg) = VideoOf(e.url))
                  => /\ ret'.result = TRUE
                     /\ \A j \in DOMAIN cache' : VideoOf(cache'[j].url) # VideoOf(e.url) ]_vars

\* a get through one locator hit the entry that was set through another
C7_Witness ==
    /\ ret.op = "get"
    /\ ret.result # None
    /\ \E i \in DOMAIN cache :
          /\ cache[i].key = KeyTable[ret.arg]
          /\ cache[i].url # ret.arg

(***************************************************************************)
(* Properties of the session store.                                        *)
(***************************************************************************)
Max(a, b) == IF a >= b THEN a ELSE b
SessionOps ==
    {"get_or_create_session", "increment_download", "increment_ad_view",
     "should_show_delay", "get_rate_limit_status"}

\* C8: for a known session get_rate_limit_status returns limited = false and
\* remaining = 999 if the session is premium; otherwise remaining =
\* max(0, 10 - daily_downloads), limited exactly when daily_downloads >= 10 and
\* reset_time = last_reset + 24h; the call leaves the session store unchanged.
C8_RateLimitStatus ==
    [][ (ret'.op = "get_rate_limit_status" /\ Known(ret'.arg))
        => LET session == sessions[ret'.arg] IN
           /\ sessions' = sessions
           /\ IF session.is_premium
              THEN ret'.result = [limited |-> FALSE, remaining |-> 999]
              ELSE /\ ret'.result.remaining = Max(0, 10 - session.daily_downloads)
                   /\ ret'.result.limited = (session.daily_downloads >= 10)
                   /\ ret'.result.reset_time = isoformat(session.last_reset + 86400) ]_vars

\* a premium session past the free quota is reported unlimited
C8_Witness ==
    /\ ret.op = "get_rate_limit_status"
    /\ Known(ret.arg)
    /\ sessions[ret.arg].is_premium
    /\ sessions[ret.arg].daily_downloads >= 10
    /\ ret.result.remaining = 999

\* C9: get_or_create_session on an existing identity sets last_seen = now and,
\* exactly when now - last_reset > 24h, sets daily_downloads = 0 and
\* last_reset = now; otherwise both are unchanged.  download_count is never
\* reset, and no other field changes.
C9_DailyRollover ==
    [][ (ret'.op = "get_or_create_session" /\ Known(ret'.arg))
        => LET old == sessions[ret'.arg]
               new == sessions'[ret'.arg] IN
           /\ DOMAIN sessions' = DOMAIN sessions
           /\ new.last_seen = now
           /\ IF now - old.last_reset > 86400
              THEN new.daily_downloads = 0 /\ new.last_reset = now
              ELSE new.daily_downloads = old.daily_downloads /\ new.last_reset = old.last_reset
           /\ new.download_count = old.download_count
           /\ ret'.result = new ]_vars

\* a rollover happened: the daily counter is back to 0, the lifetime counter is not
C9_Witness ==
    /\ ret.op = "get_or_create_session"
    /\ Known(ret.arg)
    /\ sessions[ret.arg].created_at < now
    /\ sessions[ret.arg].last_reset = now
    /\ sessions[ret.arg].daily_downloads = 0
    /\ sessions[ret.arg].download_count > 0

\* C10 as claimed: every session store operation that touches a session more
\* than 24h after its last_reset resets daily_downloads to 0 and advances
\* last_reset.
C10_RolloverOnEveryTouch ==
    [][ (/\ ret'.op \in SessionOps
         /\ Known(ret'.arg)
         /\ now - sessions[ret'.arg].last_reset > 86400)
        => /\ sessions'[ret'.arg].daily_downloads = 0
           /\ sessions'[ret'.arg].last_reset > sessions[ret'.arg].last_reset ]_vars

\* C10 amended: only get_or_create_session rolls the window over (more than 24h
\* after last_reset it sets daily_downloads = 0 and last_reset = now); the other
\* operations on a known session leave last_reset as it is and never reset
\* daily_downloads, however old last_reset is.
C10_RolloverOnlyOnGetOrCreate ==
    [][ (ret'.op \in SessionOps /\ Known(ret'.arg))
        => LET old == sessions[ret'.arg]
               new == sessions'[ret'.arg] IN
           IF ret'.op = "get_or_create_session"
           THEN (now - old.last_reset > 86400)
                => (new.daily_downloads = 0 /\ new.last_reset = now)
           ELSE /\ new.last_reset = old.last_reset
                /\ new.daily_downloads >= old.daily_downloads ]_vars

\* a download was counted into a window that had ended more than 24h after its start
C10_Witness ==
    /\ ret.op = "increment_download"
    /\ Known(ret.arg)
    /\ now - sessions[ret.arg].last_reset > 86400
    /\ sessions[ret.arg].daily_downloads > 1

HasWindow(session) == "bypass_expiry" \in DOMAIN session

\* C11: on a known session that is not premium, the increment_ad_view that
\* brings ad_views to 3 sets bypass_expiry = now + 30 minutes; should_show_delay
\* on a session that has a window returns false at every instant before
\* bypass_expiry and true from bypass_expiry on.
C11_BypassWindow ==
    [][ /\ (/\ ret'.op = "increment_ad_view"
            /\ Known(ret'.arg)
            /\ ~sessions[ret'.arg].is_premium
            /\ sessions[ret'.arg].ad_views = 2)
           => /\ sessions'[ret'.arg].ad_views = 3
              /\ HasWindow(sessions'[ret'.arg])
              /\ sessions'[ret'.arg].bypass_expiry = now + 1800
        /\ (/\ ret'.op = "should_show_delay"
            /\ Known(ret'.arg)
            /\ ~sessions[ret'.arg].is_premium
            /\ HasWindow(sessions[ret'.arg]))
           => ret'.result = (now >= sessions[ret'.arg].bypass_expiry) ]_vars

\* should_show_delay returned true at the instant the window of the third ad view
\* ended, no further ad view having occurred
C11_Witness ==
    /\ ret.op = "should_show_delay"
    /\ ret.result = TRUE
    /\ Known(ret.arg)
    /\ sessions[ret.arg].ad_views = 3
    /\ HasWindow(sessions[ret.arg])
    /\ sessions[ret.arg].bypass_expiry = now
    /\ \E old \in ret.removed : old.bypass_delay

\* C12: every increment_ad_view on a known session adds 1 to ad_views; a call
\* that leaves ad_views >= 3 sets bypass_expiry = now + 30 minutes and
\* bypass_delay, whether or not a window was open; a call that leaves
\* ad_views < 3 leaves the session without a window.
C12_WindowReopened ==
    [][ (ret'.op = "increment_ad_view" /\ Known(ret'.arg))
        => LET old == sessions[ret'.arg]
               new == sessions'[ret'.arg] IN
           /\ new.ad_views = old.ad_views + 1
           /\ IF new.ad_views >= 3
              THEN /\ HasWindow(new)
                   /\ new.bypass_expiry = now + 1800
                   /\ new.bypass_delay
              ELSE /\ ~HasWindow(new)
                   /\ ~new.bypass_delay ]_vars

\* a fourth ad view, made while the window of the third was open, moved its end
C12_Witness ==
    /\ ret.op = "increment_ad_view"
    /\ Known(ret.arg)
    /\ sessions[ret.arg].ad_views = 4
    /\ sessions[ret.arg].bypass_expiry = now + 1800
    /\ \E old \in ret.removed :
          /\ old.ad_views = 3
          /\ now < old.bypass_expiry
          /\ old.bypass_expiry < now + 1800

\* C13: should_show_delay on a known session returns false when is_premium is
\* set, whatever the bypass state, and changes nothing; on a session that is
\* not premium it returns false exactly when the session has a window and
\* now < bypass_expiry.
C13_PremiumOverride ==
    [][ (ret'.op = "should_show_delay" /\ Known(ret'.arg))
        => LET session == sessions[ret'.arg] IN
           IF session.is_premium
           THEN ret'.result = FALSE /\ sessions' = sessions
           ELSE ret'.result = ~(HasWindow(session) /\ now < session.bypass_expiry) ]_vars

\* a premium session whose window has ended is shown no delay and keeps its flag
C13_Witness ==
    /\ ret.op = "should_show_delay"
    /\ ret.result = FALSE
    /\ Known(ret.arg)
    /\ sessions[ret.arg].is_premium
    /\ HasWindow(sessions[ret.arg])
    /\ sessions[ret.arg].bypass_delay
    /\ now >= sessions[ret.arg].bypass_expiry

\* C14: for an identity that is not in the store, every session store operation
\* returns: should_show_delay returns true, get_rate_limit_status returns
\* {limited: false, remaining: 10} without a reset_time, the increments return
\* nothing, and none of them creates a session.
C14_UnknownDefaults ==
    [][ (/\ ret'.op \in {"should_show_delay", "get_rate_limit_status",
                         "increment_download", "increment_ad_view"}
         /\ ~Known(ret'.arg))
        => /\ sessions' = sessions
           /\ ret'.op = "should_show_delay" => ret'.result = TRUE
           /\ ret'.op = "get_rate_limit_status"
                 => ret'.result = [limited |-> FALSE, remaining |-> 10]
           /\ ret'.op \in {"increment_download", "increment_ad_view"}
                 => ret'.result = None ]_vars

\* the status of an identity asked for when the store holds no session, more
\* than a day after start
C14_Witness ==
    /\ ret.op = "get_rate_limit_status"
    /\ ~Known(ret.arg)
    /\ sessions = <<>>
    /\ now > 86400
    /\ ret.result.remaining = 10

\* C15: increment_download and increment_ad_view with an unknown id leave the
\* session store as it is; increment_download with a known id adds exactly 1 to
\* that session's download_count and daily_downloads and changes no other field
\* and no other session.
C15_IncrementFrame ==
    [][ /\ (ret'.op \in {"increment_download", "increment_ad_view"} /\ ~Known(ret'.arg))
           => sessions' = sessions
        /\ (ret'.op = "increment_download" /\ Known(ret'.arg))
           => LET old == sessions[ret'.arg]
                  new == sessions'[ret'.arg] IN
              /\ DOMAIN sessions' = DOMAIN sessions
              /\ \A other \in DOMAIN sessions \ {ret'.arg} : sessions'[other] = sessions[other]
              /\ DOMAIN new = DOMAIN old
              /\ new.download_count = old.download_count + 1
              /\ new.daily_downloads = old.daily_downloads + 1
              /\ \A f \in DOMAIN old \ {"download_count", "daily_downloads"} :
                    new[f] = old[f] ]_vars

\* a download was counted for one of two known sessions, the other one having
\* counted a different number
C15_Witness ==
    /\ ret.op = "increment_download"
    /\ Known(ret.arg)
    /\ \E old \in ret.removed : sessions[ret.arg].download_count = old.download_count + 1
    /\ \E other \in DOMAIN sessions :
          /\ other # ret.arg
          /\ sessions[other].download_count # sessions[ret.arg].download_count
          /\ sessions[other].last_seen # sessions[ret.arg].last_seen

\* C19: cleanup_old_sessions removes exactly the sessions whose last_seen lies
\* more than 24 hours before now, returns how many it removed and leaves every
\* surviving session as it was.
C19_OldSessionsRemoved ==
    [][ ret'.op = "cleanup_old_sessions"
        => /\ DOMAIN sessions'
                = {id \in DOMAIN sessions : ~(now - sessions[id].last_seen > 86400)}
           /\ \A id \in DOMAIN sessions' : sessions'[id] = sessions[id]
           /\ ret'.result = Cardinality(DOMAIN sessions \ DOMAIN sessions') ]_vars

\* of two sessions the one last seen more than a day ago was removed and the one
\* last seen exactly a day ago survived
C19_Witness ==
    /\ ret.op = "cleanup_old_sessions"
    /\ ret.result = 1
    /\ \E old \in ret.removed : now - old.last_seen > 86400
    /\ \E id \in DOMAIN sessions : now - sessions[id].last_seen = 86400

(***************************************************************************)
(* Properties of the sweeps and of invalidate.                             *)
(***************************************************************************)
\* C18: cleanup_expired removes every entry with expires_at <= now and no entry
\* with expires_at > now, returns the number removed, leaves the surviving
\* entries and their order as they were, and does not change hit_count or
\* miss_count.
C18_CleanupExpired ==
    [][ ret'.op = "cleanup_expired"
        => /\ KeysOf(cache') = {k \in KeysOf(cache) : Lookup(cache, k).expires_at > now}
           /\ \A k \in KeysOf(cache') : Lookup(cache', k) = Lookup(cache, k)
           /\ KeyOrder(cache') = Restrict(KeyOrder(cache), KeysOf(cache'))
           /\ recency' = Restrict(recency, KeysOf(cache'))
           /\ KeyOrder(cache') = recency'
           /\ ret'.result = Len(cache) - Len(cache')
           /\ hit_count' = hit_count
           /\ miss_count' = miss_count ]_vars

\* the sweep removed an entry at the very instant it expired and left two
\* entries, stored at different instants, in their order
C18_Witness ==
    /\ ret.op = "cleanup_expired"
    /\ ret.result = 1
    /\ Len(cache) = 2
    /\ cache[1].created_at < cache[2].created_at
    /\ \E old \in ret.removed : old.expires_at = now

\* C20: invalidate returns true exactly when an entry is stored under the
\* locator's key, expired or not, and then removes that entry and no other; it
\* returns false and changes nothing when there is none; it never changes
\* hit_count or miss_count.
C20_Invalidate ==
    [][ ret'.op = "invalidate"
        => LET key == KeyTable[ret'.arg] IN
           /\ ret'.result = (key \in KeysOf(cache))
           /\ key \notin KeysOf(cache')
           /\ cache' = SelectSeq(cache, LAMBDA e : e.key # key)
           /\ ~ret'.result => cache' = cache
           /\ hit_count' = hit_count
           /\ miss_count' = miss_count ]_vars

\* an expired entry was invalidated through a locator of another shape than the
\* one it was stored through, an older entry staying
C20_Witness ==
    /\ ret.op = "invalidate"
    /\ ret.result = TRUE
    /\ Len(cache) = 1
    /\ \E old \in ret.removed :
          /\ old.key = KeyTable[ret.arg]
          /\ old.url # ret.arg
          /\ old.expires_at <= now
          /\ cache[1].created_at < old.created_at

(***************************************************************************)
(* Properties of the background task.                                      *)
(***************************************************************************)
\* C16: a failure raised by cleanup_expired or cleanup_old_sessions during a
\* tick is caught inside the tick: it never ends the task, and after a failed
\* tick the task sleeps and a next tick begins.
C16_FailedTickIsCaught ==
    /\ [](reaper.pc # "ended")
    /\ (reaper.pc = "except") ~> (reaper.pc = "sleep" /\ reaper.logged = "error")
    /\ (reaper.pc = "sleep" /\ reaper.logged = "error") ~> (reaper.pc = "cleanup_expired")

\* a tick began after a tick that had failed
C16_Witness ==
    /\ reaper.pc = "cleanup_expired"
    /\ reaper.logged = "error"
    /\ reaper.raised = None

\* C17: once shutdown is signalled the task eventually comes to an end: it
\* leaves its loop and runs no further tick.
C17_ReaperStopsOnShutdown ==
    (app = "shutdown") ~> [](reaper.pc = "ended")

\* cache entry of key k that expires at x; session id last seen at t
HasEntry(k, x) == \E i \in DOMAIN cache : cache[i].key = k /\ cache[i].expires_at = x
SeenAt(id, t) == id \in DOMAIN sessions /\ sessions[id].last_seen = t

\* C28: a tick runs cleanup_expired and, when that returned, cleanup_old_sessions
\* before it sleeps again; with ticks that come again and again every cache
\* entry with expires_at <= now is eventually gone, and every session last seen
\* more than 24 hours ago is eventually removed unless it is touched again,
\* although no request reads either.
C28_ReaperSweepsBoth ==
    /\ [][ /\ (reaper.pc = "cleanup_expired" /\ reaper' # reaper)
              => \/ reaper'.pc = "except"
                 \/ reaper'.pc = "cleanup_old_sessions" /\ ret'.op = "cleanup_expired"
           /\ (reaper.pc = "cleanup_old_sessions" /\ reaper' # reaper)
              => \/ reaper'.pc = "except"
                 \/ reaper'.pc = "sleep" /\ ret'.op = "cleanup_old_sessions" ]_vars
    /\ \A u \in UrlsReaper, t \in ReaperTimes :
          (HasEntry(KeyTable[u], t + DefaultTtl) /\ t + DefaultTtl <= now)
             ~> ~HasEntry(KeyTable[u], t + DefaultTtl)
    /\ \A id \in SessionIds, t \in ReaperTimes :
          (SeenAt(id, t) /\ now - t > Day) ~> ~SeenAt(id, t)

\* the session sweep of a tick removed a session that nobody touched for more
\* than a day, and an entry written before is gone from the cache without a get,
\* an invalidate or a clear
C28_Witness ==
    /\ ret.op = "cleanup_old_sessions"
    /\ reaper.pc = "sleep" /\ reaper.logged = "info"
    /\ \E old \in ret.removed : now - old.last_seen > Day /\ old.id \notin DOMAIN sessions
    /\ app = "serving"
    /\ hit_count + miss_count = 0
    /\ \E k \in AllKeys : written[k] # NoWrite /\ written[k].until <= now /\ k \notin KeysOf(cache)

(***************************************************************************)
(* Further properties of the cache and of the session store.               *)
(***************************************************************************)
\* C21: clear leaves the cache without entries and hit_count = miss_count = 0,
\* whatever held before; the cache then stays empty until a set, and every get
\* on the empty cache is a miss.
C21_ClearEmpties ==
    [][ /\ ret'.op = "clear"
           => (cache' = <<>> /\ hit_count' = 0 /\ miss_count' = 0)
        /\ (cache = <<>> /\ ret'.op # "set") => cache' = <<>>
        /\ (cache = <<>> /\ ret'.op = "get")
           => /\ ret'.result = None
              /\ miss_count' = miss_count + 1
              /\ hit_count' = hit_count ]_vars

\* a clear dropped two entries
C21_Witness ==
    /\ ret.op = "clear"
    /\ Cardinality(ret.removed) = 2
    /\ cache = <<>>
    /\ hit_count = 0
    /\ miss_count = 0

\* C23: get_or_create_session on an identity that has no session adds exactly
\* one session, under the identity's id, with download_count = daily_downloads
\* = ad_views = 0, is_premium false, no bypass, created_at = last_seen = now;
\* on an identity that has one it adds none and keeps the session's id,
\* created_at and counters, so that the counters accumulate on one session.
C23_OneSessionPerIdentity ==
    [][ ret'.op = "get_or_create_session"
        => LET id == ret'.arg IN
           /\ id \in SessionIdsOf(ClientPair)
           /\ DOMAIN sessions' = DOMAIN sessions \cup {id}
           /\ \A other \in DOMAIN sessions \ {id} : sessions'[other] = sessions[other]
           /\ ret'.result = sessions'[id]
           /\ sessions'[id].id = id
           /\ IF ~Known(id)
              THEN LET new == sessions'[id] IN
                   /\ new.download_count = 0 /\ new.daily_downloads = 0 /\ new.ad_views = 0
                   /\ new.fetch_count = 0
                   /\ new.is_premium = FALSE
                   /\ new.bypass_delay = FALSE /\ ~HasWindow(new)
                   /\ new.created_at = now /\ new.last_seen = now /\ new.last_reset = now
              ELSE /\ sessions'[id].created_at = sessions[id].created_at
                   /\ sessions'[id].download_count = sessions[id].download_count
                   /\ sessions'[id].ad_views = sessions[id].ad_views ]_vars

\* the second call of an identity found the session of the first, with the
\* downloads counted since, beside the session of another identity
C23_Witness ==
    /\ ret.op = "get_or_create_session"
    /\ Cardinality(DOMAIN sessions) = 2
    /\ sessions[ret.arg].created_at < now
    /\ sessions[ret.arg].download_count = 2
    /\ \E other \in DOMAIN sessions : sessions[other].download_count = 0

\* C24: a set stores the entry with expires_at = now + ttl for every ttl the
\* caller gives and with the default ttl only when the caller gives none.
C24_SetUsesGivenTtl ==
    [][ (ret'.op = "set" /\ KeyTable[ret'.arg] \in KeysOf(cache'))
        => LET key == KeyTable[ret'.arg] IN
           /\ Lookup(cache', key).expires_at = written'[key].until
           /\ cache'[Len(cache')].key = key ]_vars

\* C27: the bypass flag of a session goes from set to cleared only in a
\* should_show_delay call made at or after bypass_expiry, and from cleared to
\* set only in increment_ad_view; no other operation on the session changes it.
C27_DelayGate ==
    [][ \A id \in DOMAIN sessions \cap DOMAIN sessions' :
          /\ (sessions[id].bypass_delay /\ ~sessions'[id].bypass_delay)
             => /\ ret'.op = "should_show_delay"
                /\ ret'.arg = id
                /\ now >= sessions[id].bypass_expiry
          /\ (~sessions[id].bypass_delay /\ sessions'[id].bypass_delay)
             => /\ ret'.op = "increment_ad_view"
                /\ ret'.arg = id ]_vars

\* a daily rollover, made after the window had ended, left the flag set
C27_Witness ==
    /\ ret.op = "get_or_create_session"
    /\ Known(ret.arg)
    /\ sessions[ret.arg].last_reset = now
    /\ sessions[ret.arg].created_at < now
    /\ sessions[ret.arg].bypass_delay
    /\ sessions[ret.arg].bypass_expiry < now

(***************************************************************************)
(* Properties of get_stats.                                                *)
(***************************************************************************)
DigitValue(c) == (CHOOSE i \in DOMAIN DigitChars : DigitChars[i] = c) - 1

RECURSIVE Number(_)
Number(ds) == IF ds = <<>> THEN 0 ELSE 10 * Number(SubSeq(ds, 1, Len(ds) - 1)) + DigitValue(ds[Len(ds)])

\* the hundredths of a percent a text "d..d.dd%" stands for
PercentValue(text) ==
    100 * Number(SubSeq(text, 1, Len(text) - 4)) + Number(SubSeq(text, Len(text) - 2, Len(text) - 1))

\* C22 as claimed: get_stats reports size = the number of entries,
\* total_requests = hit_count + miss_count and hit_rate = 100 * hit_count /
\* (hit_count + miss_count), 0 when there was no request, and changes nothing.
C22_StatsExact ==
    [][ ret'.op = "get_stats"
        => LET stats == ret'.result
               total == hit_count + miss_count IN
           /\ stats.size = Len(cache)
           /\ stats.total_requests = total
           /\ PercentValue(stats.hit_rate) * total = 100 * (100 * hit_count)
           /\ total = 0 => PercentValue(stats.hit_rate) = 0
           /\ cache' = cache /\ hit_count' = hit_count /\ miss_count' = miss_count ]_vars

\* C22 amended: hit_rate is the text of 100 * hit_count / (hit_count +
\* miss_count) rounded to the nearest hundredth, two decimals and a % sign
\* ("0.00%" when there was no request); size, total_requests and the frame are
\* as claimed.
C22_StatsRounded ==
    [][ ret'.op = "get_stats"
        => LET stats == ret'.result
               total == hit_count + miss_count
               text == stats.hit_rate
               value == PercentValue(text)
               off == value * total - 10000 * hit_count IN
           /\ stats.size = Len(cache)
           /\ stats.max_size = max_size
           /\ stats.hit_count = hit_count /\ stats.miss_count = miss_count
           /\ stats.total_requests = total
           /\ Len(text) >= 5 /\ text[Len(text)] = "%" /\ text[Len(text) - 3] = "."
           /\ 2 * off <= total /\ 2 * off >= 0 - total
           /\ total = 0 => text = <<"0", ".", "0", "0", "%">>
           /\ cache' = cache /\ hit_count' = hit_count /\ miss_count' = miss_count ]_vars

\* two hits in three requests are reported as 66.67%
C22_Witness ==
    /\ ret.op = "get_stats"
    /\ hit_count = 2
    /\ miss_count = 1
    /\ ret.result.hit_rate = <<"6", "6", ".", "6", "7", "%">>
    /\ ret.result.size = Len(cache)
    /\ Len(cache) > 0

(***************************************************************************)
(* Properties of the request handlers.                                     *)
(***************************************************************************)
\* C25 as claimed: the fields of a session are written by the operations of
\* the session store only.  No operation of the store writes fetch_count after
\* it created the session with fetch_count = 0, so a session that stays in
\* the store keeps its fetch_count through every step.
C25_OnlyStoreWrites ==
    [][ \A id \in DOMAIN sessions \cap DOMAIN sessions' :
            sessions'[id].fetch_count = sessions[id].fetch_count ]_vars

(***************************************************************************)
(* Properties of the locks of the two stores.                              *)
(***************************************************************************)
Stores == {"cache", "sessions"}
InBody(p) == pc[p] \notin {"idle", "acquire", "wait"}
\* the contexts inside a body of the store
Inside(s) == {p \in Tasks : InBody(p) /\ StoreOf(call[p].op) = s}
PublicOps ==
    {"get", "set", "invalidate", "clear", "cleanup_expired", "get_stats"} \cup SessionOpNames

\* C26 as claimed: every public operation of the two stores, get_stats
\* included, runs and returns with the lock of its store held; at most one
\* context is inside the bodies of a store; the lock is not held for a context
\* that left.
C26_EveryOperationLocked ==
    /\ [][ (ret' # ret /\ ret'.op \in PublicOps) => lock[StoreOf(ret'.op)].locked ]_vars
    /\ [](\A s \in Stores : Cardinality(Inside(s)) <= 1)
    /\ [](\A s \in Stores : Inside(s) = {} => ~lock[s].locked)

\* C29: a lock is held exactly while one context is inside a body of its
\* store, and a context is inside one body at a time, so that no context and no
\* tick holds both locks; every context waiting for a lock gets it, and every
\* call under way returns.
C29_LocksNeverNested ==
    /\ [](\A s \in Stores :
             /\ Cardinality(Inside(s)) <= 1
             /\ lock[s].locked <=> Inside(s) # {}
             /\ \A i \in DOMAIN lock[s].waiters :
                   LET w == lock[s].waiters[i] IN
                   pc[w] = "wait" /\ StoreOf(call[w].op) = s)
    /\ \A p \in Tasks : (pc[p] = "wait") ~> InBody(p)
    /\ \A p \in Tasks : (pc[p] # "idle") ~> (pc[p] = "idle")

\* the task waits for the session lock, which a request context holds, while
\* another request context holds the cache lock
C29_Witness ==
    /\ pc[Reaper] = "wait"
    /\ call[Reaper].op = "cleanup_old_sessions"
    /\ lock.sessions.locked /\ lock.cache.locked
    /\ \E p, q \in Procs : p # q /\ Inside("sessions") = {p} /\ Inside("cache") = {q}

\* C30: with increment_download and increment_ad_view calls of several
\* contexts under way on one known id, beside get_or_create_session calls and
\* the sweeps, each call's write raises download_count and daily_downloads
\* (resp. ad_views) by one over their value at that moment and no other step
\* changes them: n calls leave them n higher.
C30_NoLostUpdate ==
    [][ \A id \in DOMAIN sessions \cap DOMAIN sessions' :
           LET downloads == {p \in Tasks : /\ pc[p] = "download_write" /\ pc'[p] = "idle"
                                           /\ call[p].id = id /\ ret'.op # "KeyError"}
               views == {p \in Tasks : /\ pc[p] = "ad_view_write" /\ pc'[p] = "idle"
                                       /\ call[p].id = id /\ ret'.op # "KeyError"}
           IN  /\ sessions'[id].download_count
                     = sessions[id].download_count + Cardinality(downloads)
               /\ sessions'[id].daily_downloads
                     = sessions[id].daily_downloads + Cardinality(downloads)
               /\ sessions'[id].ad_views = sessions[id].ad_views + Cardinality(views) ]_vars

\* a second increment_download waits for the lock while the first, which has
\* read the counter, is about to write it, and an ad view was counted before
C30_Witness ==
    \E p, q \in Procs :
       /\ pc[p] = "download_write" /\ pc[q] = "wait"
       /\ call[q].op = "increment_download" /\ call[q].id = call[p].id
       /\ Known(call[p].id)
       /\ local[p].found /\ local[p].download_count = sessions[call[p].id].download_count
       /\ sessions[call[p].id].ad_views = 1

(***************************************************************************)
(* Properties that follow from the operations taken together.              *)
(***************************************************************************)
\* C37: a get that returns a value raises hit_count by one and leaves
\* miss_count, a get that returns None raises miss_count by one and leaves
\* hit_count; clear sets both to 0 and no other operation changes either, so
\* that hit_count + miss_count counts the gets completed since construction or
\* the last clear.
C37_HitMissAccounting ==
    [][ /\ (ret'.op = "get" /\ ret'.result # None)
           => (hit_count' = hit_count + 1 /\ miss_count' = miss_count)
        /\ (ret'.op = "get" /\ ret'.result = None)
           => (miss_count' = miss_count + 1 /\ hit_count' = hit_count)
        /\ ret'.op = "clear" => (hit_count' = 0 /\ miss_count' = 0)
        /\ ret'.op \notin {"get", "clear"}
           => (hit_count' = hit_count /\ miss_count' = miss_count) ]_vars

\* after one hit, a get found the entry expired, removed it and counted a miss
C37_Witness ==
    /\ ret.op = "get"
    /\ ret.result = None
    /\ ret.removed # {}
    /\ hit_count = 1
    /\ miss_count = 1

\* C34: every session has 0 <= daily_downloads <= download_count, and while a
\* session stays in the store its download_count and its ad_views never go
\* down (the rollover resets daily_downloads only).
C34_CountersOrdered ==
    /\ [](\A id \in DOMAIN sessions :
             /\ 0 <= sessions[id].daily_downloads
             /\ sessions[id].daily_downloads <= sessions[id].download_count)
    /\ [][ \A id \in DOMAIN sessions \cap DOMAIN sessions' :
              /\ sessions'[id].download_count >= sessions[id].download_count
              /\ sessions'[id].ad_views >= sessions[id].ad_views ]_vars

\* get_or_create_session rolled the daily counter of a session over that had
\* counted downloads and ad views
C34_Witness ==
    /\ ret.op = "get_or_create_session"
    /\ Known(ret.arg)
    /\ sessions[ret.arg].daily_downloads = 0
    /\ sessions[ret.arg].last_reset = now
    /\ sessions[ret.arg].download_count > 1
    /\ sessions[ret.arg].ad_views > 0

\* C35: a session with bypass_delay set has ad_views >= 3 and a bypass_expiry;
\* so a session with fewer than 3 ad views has no bypass, and should_show_delay
\* returns true for every session that is not premium and has fewer than 3 ad
\* views.
C35_BypassNeedsThreeAdViews ==
    /\ [](\A id \in DOMAIN sessions :
             sessions[id].bypass_delay
                => (sessions[id].ad_views >= 3 /\ HasWindow(sessions[id])))
    /\ [][ (/\ ret'.op = "should_show_delay"
            /\ Known(ret'.arg)
            /\ ~sessions[ret'.arg].is_premium
            /\ sessions[ret'.arg].ad_views < 3)
           => ret'.result = TRUE ]_vars

\* should_show_delay returned true for a session with two ad views
C35_Witness ==
    /\ ret.op = "should_show_delay"
    /\ ret.result = TRUE
    /\ Known(ret.arg)
    /\ ~sessions[ret.arg].is_premium
    /\ sessions[ret.arg].ad_views = 2
    /\ ~sessions[ret.arg].bypass_delay

\* the cache holds an entry of the locator's key that has not expired
Fresh(c, url, t) == \E i \in DOMAIN c : c[i].key = KeyTable[url] /\ t < c[i].expires_at
FreshData(c, url, t) ==
    (CHOOSE e \in {c[i] : i \in DOMAIN c} : e.key = KeyTable[url] /\ t < e.expires_at).data

\* C31: when the handler asks for the info with caching enabled and the cache
\* holds an entry of the locator that has not expired, it has the cached value
\* and does not await the extractor; otherwise it awaits the extractor.  When
\* the extractor returns an info, the info is in the cache afterwards, so that
\* a get of the locator at that moment is a hit; when the extraction fails the
\* cache is left as it was.
C31_CacheAside ==
    [][ (ret'.op = "fetch_video_info" /\ ret'.use_cache)
        => LET url == ret'.url IN
           /\ hit_count' + miss_count' > hit_count + miss_count
              => IF Fresh(cache, url, now)
                 THEN ret'.stage # "extract" /\ ret'.info = FreshData(cache, url, now)
                 ELSE ret'.stage = "extract" /\ ret'.info = None
           /\ (ret'.from = "extract" /\ ret'.result # 400)
              => /\ Fresh(cache', url, now)
                 /\ FreshData(cache', url, now) = ret'.info
                 /\ get(CacheStoreNext, url, now).result = ret'.info
           /\ (ret'.from = "extract" /\ ret'.result = 400)
              => cache' = cache
           /\ ret'.from # "extract" => \A i \in DOMAIN cache' : \E j \in DOMAIN cache : cache[j] = cache'[i] ]_vars

\* a request had the info from the cache, without the extractor, after an
\* earlier request had missed and stored what it extracted
C31_Witness ==
    /\ ret.op = "fetch_video_info"
    /\ ret.use_cache
    /\ ret.from # "extract"
    /\ ret.info # None
    /\ hit_count = 1
    /\ miss_count >= 1

\* C36: is_premium is false for every session in every state the handlers and
\* the operations of the session store lead to: get_rate_limit_status never
\* returns remaining = 999, and should_show_delay returns false only inside a
\* bypass window.
C36_NeverPremium ==
    /\ [](\A id \in DOMAIN sessions : ~sessions[id].is_premium)
    /\ [][ /\ ret'.op = "get_session_status"
              => ret'.result.downloads_remaining # 999
           /\ (ret'.op = "get_session_status" /\ ~ret'.result.show_delays)
              => /\ sessions'[ret'.arg].bypass_delay
                 /\ now < sessions'[ret'.arg].bypass_expiry
           /\ (ret'.op = "track_ad_view" /\ ret'.result.fast_lane)
              => /\ sessions'[ret'.arg].bypass_delay
                 /\ now < sessions'[ret'.arg].bypass_expiry ]_vars

\* the status of a session inside its bypass window: the whole quota remains,
\* and no delay is shown although the session is not premium
C36_Witness ==
    /\ ret.op = "get_session_status"
    /\ ret.result.downloads_remaining = DailyLimit
    /\ ~ret.result.show_delays
    /\ sessions[ret.arg].ad_views >= BypassAdViews
    /\ ~sessions[ret.arg].is_premium

C33_SingleFlight ==
    \A p, q \in Procs :
       (p # q /\ Extracting(p) /\ Extracting(q))
          => KeyTable[handler[p].arg] # KeyTable[handler[q].arg]

====
